---- MODULE Spec2Model ----
(***************************************************************************)
(* FSecure ByteConverter: ByteVector (owning buffer), ByteView (cursor)    *)
(* and the ByteConverter<T> family, as a state machine.                    *)
(*                                                                         *)
(* The model is of a 64-bit build: sizeof(size_t) = 8, sizeof(uint32_t) =  *)
(* 4.  Scalar values of up to four bytes are naturals; a scalar of eight   *)
(* bytes is the record [hi, lo] of its two 32-bit halves.  Scalars are     *)
(* encoded little-endian byte by byte.  A                                  *)
(* C++ exception is the status "err" carried through the results; a read   *)
(* past the end of a view that the code does not check is the status "ub"; *)
(* std::abort(), which BYTE_CONVERTER_THROW is in a build without          *)
(* exceptions, is the status "abort".                                      *)
(***************************************************************************)
EXTENDS Integers, Sequences, FiniteSets, TLC

VARIABLES
    bv,       \* the ByteVector: [bytes, cap, addr]
    view,     \* the ByteView over bv: [live, ub, begin, len, lo, hi]
    last,     \* the last call: what it was given, what it found, what it returned
    made,     \* the arguments whose encodings bv holds, in order
    pops,     \* pop_back() calls applied to bv since it was created
    hist,     \* the typed reads made on view since it was constructed, while
              \* nothing else was called on it and up to the first that failed
    items,    \* arguments handed to Create/Write so far
    aborted,  \* the process was terminated
    exceptions, \* BYTE_CONVERTER_HAS_EXCEPTIONS, as the build has it
    saved,    \* a second ByteView object: a copy made of view
    base      \* the bytes the buffer held before the calls of made

vars == <<bv, view, last, made, pops, hist, items, aborted, exceptions, saved, base>>

-----------------------------------------------------------------------------
(* Bounds of the model.                                                    *)

\* Arguments passed to Create/Write in one run of the write-side machine.
MaxItems == 3
\* Arguments of one Create in the read-side machine.
MaxReadArgs == 2
\* pop_back() calls applied to a created buffer (truncated input).
MaxPops == 1
\* Largest offset handed to the ByteView(data, offset) constructor.
MaxOffset == 1
\* Types named in one Read<...>() call.
MaxTypes == 2
\* Largest byte count handed to Read(n) and SubString.
MaxCount == 1
\* Members of a type whose converter derives from TupleConverter.
MaxMembers == 2

-----------------------------------------------------------------------------
(* Type descriptors: the template argument T of ByteConverter<T>.          *)

Scalar(w) == [k |-> "scalar", n |-> w, sub |-> <<>>]
EnumT(w) == [k |-> "enum", n |-> w, sub |-> <<>>]
Iter(e) == [k |-> "iterable", n |-> 0, sub |-> <<e>>]
ViewT(e) == [k |-> "view", n |-> 0, sub |-> <<e>>]
ArrayT(e, N) == [k |-> "array", n |-> N, sub |-> <<e>>]
TupleT(ms) == [k |-> "tuple", n |-> 0, sub |-> ms]
VariantT(alts) == [k |-> "variant", n |-> 0, sub |-> alts]
BytesT(N) == [k |-> "bytes", n |-> N, sub |-> <<>>]
PathT(e) == [k |-> "path", n |-> 0, sub |-> <<e>>]
TupleConv(ms) == [k |-> "tupleconv", n |-> 0, sub |-> ms]
BrokenType == [k |-> "broken", n |-> 0, sub |-> <<>>]
\* An iterable of e given by its number of elements and the value each of
\* them has, as std::vector<e>(count, value) is: its value is [count, elem],
\* count being a size_t.
FilledT(e) == [k |-> "filled", n |-> 0, sub |-> <<e>>]
\* A type T whose converter derives from PointerTupleConverter<T>: its
\* members, the members MemberPointers() names, and T{}.
PointerTupleConv(ms, ptrs, dflt) ==
    [k |-> "ptrtuple", n |-> 0, sub |-> ms, ptrs |-> ptrs, dflt |-> dflt]

\* A type with a converter of the user's: struct { int number; } and a
\* ByteConverter specialization that defines the Size functions named in
\* sizes and the To functions named in tos, each of them serializing the one
\* member.
UserConv(e, sizes, tos) ==
    [k |-> "user", n |-> 0, sub |-> <<e>>, sizes |-> sizes, tos |-> tos]

U8 == Scalar(1)
U16 == Scalar(2)
U32 == Scalar(4)
SizeT == Scalar(8)

\* A size_t (or any scalar of eight bytes) of a value below 2^32.
Wide(n) == [hi |-> 0, lo |-> n]

Arg(t, v) == [t |-> t, v |-> v]

IsIterableKind(t) == t.k \in {"iterable", "view", "array", "filled"}

\* Utils::Container::Size{}(obj), obj.size(): the number of elements, a size_t.
ContainerSize(t, v) == IF t.k = "filled" THEN v.count ELSE Wide(Len(v))

\* The elements a loop over obj visits.  Of a filled container of 2^32
\* elements or more only the count is kept: no loop of the code gets to
\* walk one.
Elements(t, v) ==
    IF t.k = "filled" THEN [i \in 1..v.count.lo |-> v.elem] ELSE v

-----------------------------------------------------------------------------
(* Little-endian scalar representation.                                    *)

\* A plausible slip in ToLE: the most significant byte goes first.
RECURSIVE ToLEBigEndian(_, _)
ToLEBigEndian(v, w) ==
    IF w = 0 THEN <<>>
    ELSE IF w = 8 THEN ToLEBigEndian(v.hi, 4) \o ToLEBigEndian(v.lo, 4)
    ELSE ToLEBigEndian(v \div 256, w - 1) \o <<v % 256>>

RECURSIVE ToLE(_, _)
ToLE(v, w) ==
    IF w = 0 THEN <<>>
    ELSE IF w = 8 THEN ToLE(v.lo, 4) \o ToLE(v.hi, 4)
    ELSE <<v % 256>> \o ToLE(v \div 256, w - 1)

RECURSIVE FromLE(_)
FromLE(bs) ==
    IF Len(bs) = 0 THEN 0
    ELSE IF Len(bs) = 8
         THEN [hi |-> FromLE(SubSeq(bs, 5, 8)), lo |-> FromLE(SubSeq(bs, 1, 4))]
    ELSE bs[1] + 256 * FromLE(Tail(bs))

-----------------------------------------------------------------------------
(* Which specialization of ByteConverter<T> a type gets.  A type is given  *)
(* by what the constraints of the specializations ask of it.               *)

\* explicit: ByteConverter<T> is specialized for T itself;
\* variant: T is a std::variant<Ts...>; arithmetic, enum: std::is_arithmetic_v,
\* std::is_enum_v; iterable: Utils::Container::IsIterable;
\* each: Detail::MemberGenericAccess::EachElement; convertible,
\* constructible: Detail::TupleHandlerCompatible::Convertible, Constructible.
Traits ==
    [explicit : BOOLEAN, variant : BOOLEAN, arithmetic : BOOLEAN, enum : BOOLEAN,
     iterable : BOOLEAN, each : BOOLEAN, convertible : BOOLEAN,
     constructible : BOOLEAN]

\* Detail::TupleHandlerCompatible::Transformable
Transformable(x) == x.convertible \/ x.constructible

\* The combinations a C++ type can have: an arithmetic type is nothing
\* else, a std::variant is a class with neither begin nor std::tuple_size,
\* and TupleHandler<T>::Read needs std::tuple_size<T>.
IsType(x) ==
    /\ x.arithmetic => ~(x.enum \/ x.iterable \/ x.each \/ x.variant)
    /\ x.variant => ~(x.enum \/ x.iterable \/ x.each)
    /\ Transformable(x) => x.each

\* A plausible slip in Constrained: the tuple specialization does not
\* exclude iterables.
ConstrainedNoExclusion(x) ==
    { c \in {"scalar", "enum", "iterable", "tuple"} :
        \/ c = "scalar" /\ x.arithmetic
        \/ c = "enum" /\ x.enum
        \/ c = "iterable" /\ x.iterable
        \/ c = "tuple" /\ x.each /\ Transformable(x) }

\* The constrained partial specializations ByteConverter<T> whose
\* requires-clause T satisfies.
Constrained(x) ==
    { c \in {"scalar", "enum", "iterable", "tuple"} :
        \/ c = "scalar" /\ x.arithmetic
        \/ c = "enum" /\ x.enum
        \/ c = "iterable" /\ x.iterable
        \/ c = "tuple" /\ ~x.iterable /\ x.each /\ Transformable(x) }

\* The specialization the compiler instantiates for ByteConverter<T>: the
\* explicit one, else the one for std::variant<Ts...>, which is more
\* specialized than any ByteConverter<T>, else the constrained one that
\* matches.  "none" is the empty primary template, which has no To and no
\* From, and "ambiguous" two matches neither of which subsumes the other:
\* both end the build.
Resolve(x) ==
    IF x.explicit THEN "explicit"
    ELSE IF x.variant THEN "variant"
    ELSE IF Constrained(x) = {} THEN "none"
    ELSE IF Cardinality(Constrained(x)) = 1 THEN CHOOSE c \in Constrained(x) : TRUE
    ELSE "ambiguous"

-----------------------------------------------------------------------------
(* Detail::ConverterDeduction: which Size and To signature a converter     *)
(* exposes.                                                                *)

\* The types of the tuple PointerTupleConverter<T>::Convert returns.
ConvertType(t) == [i \in 1..Len(t.ptrs) |-> t.sub[t.ptrs[i]]]

\* PointerTupleConverter<T>::Convert(obj): the pointed-to members, in the
\* order of MemberPointers().
PointerTupleConvert(t, v) == [i \in 1..Len(t.ptrs) |-> v[t.ptrs[i]]]

\* ConverterDeduction<C>::FunctionSize of an element type C of the tuple
\* Utils::MakeConversionTuple builds for a member of type M: C is M const for
\* a trivial M no larger than long long and M const& for any other.  The
\* constrained specializations for arithmetic and enum types take M const, the
\* one for iterables takes M const&; a specialization written for M itself
\* takes neither, which leaves the empty primary template.
ElementFunctionSize(m) ==
    CASE m.k \in {"scalar", "enum"} -> "compileTime"
      [] m.k \in {"iterable", "view", "array", "filled"} -> "runTime"
      [] OTHER -> "absent"

\* A plausible slip in FunctionSize: the instance-taking Size is looked for
\* first.
FunctionSizeRunTimeFirst(t) ==
    CASE t.k \in {"scalar", "enum"} -> "compileTime"
      [] t.k = "user" ->
            IF "Size(obj)" \in t.sizes THEN "runTime"
            ELSE IF "Size()" \in t.sizes THEN "compileTime"
            ELSE "absent"
      [] t.k = "tupleconv" ->
            IF \A i \in 1..Len(t.sub) : ElementFunctionSize(t.sub[i]) = "compileTime"
            THEN "compileTime" ELSE "runTime"
      [] t.k = "ptrtuple" ->
            IF \A i \in 1..Len(t.ptrs) :
                    ElementFunctionSize(t.sub[t.ptrs[i]]) = "compileTime"
            THEN "compileTime" ELSE "runTime"
      [] OTHER -> "runTime"

\* ConverterDeduction<T>::FunctionSize: compileTime when ByteConverter<T>::Size()
\* is callable, else runTime when ByteConverter<T>::Size(obj) is, else absent.
FunctionSize(t) ==
    CASE t.k \in {"scalar", "enum"} -> "compileTime"
      [] t.k = "user" ->
            IF "Size()" \in t.sizes THEN "compileTime"
            ELSE IF "Size(obj)" \in t.sizes THEN "runTime"
            ELSE "absent"
      [] t.k = "tupleconv" ->
            IF \A i \in 1..Len(t.sub) : ElementFunctionSize(t.sub[i]) = "compileTime"
            THEN "compileTime" ELSE "runTime"
      [] t.k = "ptrtuple" ->
            IF \A i \in 1..Len(t.ptrs) :
                    ElementFunctionSize(t.sub[t.ptrs[i]]) = "compileTime"
            THEN "compileTime" ELSE "runTime"
      [] OTHER -> "runTime"

\* ConverterDeduction<T>::FunctionTo: expandsContainer when To(obj, bv) is
\* callable, else createsContainer when To(obj) is, else absent.
FunctionTo(t) ==
    CASE t.k = "broken" -> "createsContainer"
      [] t.k = "user" ->
            IF "To(obj, bv)" \in t.tos THEN "expandsContainer"
            ELSE IF "To(obj)" \in t.tos THEN "createsContainer"
            ELSE "absent"
      [] OTHER -> "expandsContainer"

\* The static_assert of ConverterDeduction<T> and WriteCondition<T>: a To
\* that expands the buffer needs a Size, and some To there must be.
Deducible(t) ==
    /\ FunctionTo(t) # "absent"
    /\ ~(FunctionTo(t) = "expandsContainer" /\ FunctionSize(t) = "absent")

\* ByteConverter<T>::Size() of a type whose size is known at compile time.
RECURSIVE StaticSize(_)
RECURSIVE StaticSum(_, _)
StaticSize(t) ==
    CASE t.k \in {"scalar", "enum"} -> t.n
      [] t.k = "user" -> StaticSize(t.sub[1])
      [] t.k = "tupleconv" -> StaticSum(t.sub, 1)
      [] t.k = "ptrtuple" -> StaticSum(ConvertType(t), 1)
      [] OTHER -> 0
StaticSum(ms, i) ==
    IF i > Len(ms) THEN 0 ELSE StaticSize(ms[i]) + StaticSum(ms, i + 1)

-----------------------------------------------------------------------------
(* Size phase.  A size result is [ok, n, hi]; ok = FALSE is an exception   *)
(* thrown by a converter's Size.  The size is the size_t hi * 2^32 + n.    *)

SizeWide(hi, n) == [ok |-> TRUE, n |-> n, hi |-> hi, calls |-> <<>>]
SizeOk(n) == SizeWide(0, n)
SizeThrow == [ok |-> FALSE, n |-> 0, hi |-> 0, calls |-> <<>>]

\* The call of the function f of the converter of the user's for the
\* argument v of type t, as the counters the tests keep in their converters
\* see it; the calls of the library's own converters are not recorded.  Of
\* decoding, the calls recorded are those ByteView::Read and ByteReader::Read
\* make for the types they are given.
Called(f, t, v) ==
    IF t.k = "user" THEN <<[f |-> f, arg |-> Arg(t, v)]>> ELSE <<>>

\* a + b of two sizes, the left operand first: b is not computed once a has
\* thrown.
SizeAdd(a, b) ==
    IF ~a.ok THEN a
    ELSE IF ~b.ok THEN [b EXCEPT !.calls = a.calls \o @]
    ELSE [SizeWide(a.hi + b.hi, a.n + b.n) EXCEPT !.calls = a.calls \o b.calls]

RECURSIVE ConverterSize(_, _)
RECURSIVE SizeEach(_, _, _)
RECURSIVE TupleHandlerSize(_, _, _)

\* ByteConverter<T>::To(obj), the form that returns a new container:
\* BrokenType's always throws, the user's returns
\* ByteVector::Create(obj.number), the bytes of the number.
ConverterToCreate(t, v) ==
    IF t.k = "user"
    THEN [st |-> "ok", bytes |-> ToLE(v, t.sub[1].n), calls |-> <<>>]
    ELSE [st |-> "err", bytes |-> <<>>, calls |-> <<>>]

\* A plausible slip in ByteVectorSizeOne: the size is measured by encoding
\* whenever it is not known at compile time.
ByteVectorSizeOneMeasures(t, v) ==
    IF FunctionSize(t) = "compileTime"
    THEN [SizeOk(StaticSize(t)) EXCEPT !.calls = Called("Size()", t, v)]
    ELSE IF t.k # "user"
    THEN [ConverterSize(t, v) EXCEPT !.calls = Called("Size(obj)", t, v) \o @]
    ELSE LET c == ConverterToCreate(t, v) IN
         [IF c.st = "ok" THEN SizeOk(Len(c.bytes)) ELSE SizeThrow
            EXCEPT !.calls = Called("To(obj)", t, v) \o c.calls]

\* ByteVector::Size(arg) for one argument: the static Size() when the
\* converter has one, else the instance-taking Size(obj), else the size of
\* the container To(obj) returns.
ByteVectorSizeOne(t, v) ==
    IF FunctionSize(t) = "compileTime"
    THEN [SizeOk(StaticSize(t)) EXCEPT !.calls = Called("Size()", t, v)]
    ELSE IF FunctionSize(t) = "runTime"
    THEN [ConverterSize(t, v) EXCEPT !.calls = Called("Size(obj)", t, v) \o @]
    ELSE LET c == ConverterToCreate(t, v) IN
         [IF c.st = "ok" THEN SizeOk(Len(c.bytes)) ELSE SizeThrow
            EXCEPT !.calls = Called("To(obj)", t, v) \o c.calls]

\* The per-element loop of ByteConverter<iterable>::Size.
SizeEach(e, vs, i) ==
    IF i > Len(vs) THEN SizeOk(0)
    ELSE SizeAdd(ByteVectorSizeOne(e, vs[i]), SizeEach(e, vs, i + 1))

\* Detail::TupleHandler<T, N>::Size, member i onwards.
TupleHandlerSize(ms, vs, i) ==
    IF i > Len(ms) THEN SizeOk(0)
    ELSE SizeAdd(ByteVectorSizeOne(ms[i], vs[i]), TupleHandlerSize(ms, vs, i + 1))

\* A plausible slip in IterableSize: the 4-byte count is left out.
IterableSizeNoCount(t, v) ==
    LET size == ContainerSize(t, v) IN
    IF FunctionSize(t.sub[1]) = "compileTime"
    THEN SizeWide(StaticSize(t.sub[1]) * size.hi, StaticSize(t.sub[1]) * size.lo)
    ELSE SizeEach(t.sub[1], Elements(t, v), 1)

\* ByteConverter<iterable>::Size: the count, then the elements, multiplied
\* out when the element size is known at compile time.
IterableSize(t, v) ==
    LET size == ContainerSize(t, v) IN
    IF FunctionSize(t.sub[1]) = "compileTime"
    THEN SizeWide(StaticSize(t.sub[1]) * size.hi,
                  U32.n + StaticSize(t.sub[1]) * size.lo)
    ELSE SizeAdd(SizeOk(U32.n), SizeEach(t.sub[1], Elements(t, v), 1))

\* ByteConverter<T>::Size(obj) of each converter.
ConverterSize(t, v) ==
    CASE t.k \in {"scalar", "enum"} -> SizeOk(t.n)
      [] IsIterableKind(t) -> IterableSize(t, v)
      [] t.k = "tuple" -> TupleHandlerSize(t.sub, v, 1)
      [] t.k = "variant" ->
            SizeAdd(SizeOk(SizeT.n), ByteVectorSizeOne(t.sub[v.idx + 1], v.val))
      [] t.k = "path" -> ByteVectorSizeOne(t.sub[1], v)
      [] t.k = "tupleconv" -> ByteVectorSizeOne(TupleT(t.sub), v)
      [] t.k = "ptrtuple" ->
            ByteVectorSizeOne(TupleT(ConvertType(t)), PointerTupleConvert(t, v))
      [] t.k = "broken" -> IF v THEN SizeThrow ELSE SizeOk(0)
      [] t.k = "user" -> ByteVectorSizeOne(t.sub[1], v)
      [] OTHER -> SizeThrow

\* A plausible slip in ByteVectorSize: the recursion stops one argument early.
RECURSIVE ByteVectorSizeDropsLast(_)
ByteVectorSizeDropsLast(args) ==
    IF Len(args) <= 2 THEN ByteVectorSizeOne(args[1].t, args[1].v)
    ELSE SizeAdd(ByteVectorSizeOne(args[1].t, args[1].v),
                 ByteVectorSizeDropsLast(Tail(args)))

\* ByteVector::Size(arg, args...) == Size(arg) + Size(args...).
RECURSIVE ByteVectorSize(_)
ByteVectorSize(args) ==
    IF Len(args) = 1 THEN ByteVectorSizeOne(args[1].t, args[1].v)
    ELSE SizeAdd(ByteVectorSizeOne(args[1].t, args[1].v), ByteVectorSize(Tail(args)))

-----------------------------------------------------------------------------
(* ByteVector.  Inside one call the buffer is the record                    *)
(* [bytes, cap, capHi, addr, grows, st, kind]: its bytes, its capacity      *)
(* capHi * 2^32 + cap, the address of its storage, the size it had at each  *)
(* reallocation made so far in the call, "err" once an exception is in      *)
(* flight and the exception's type.  Every allocation succeeds.             *)

Max(a, b) == IF a > b THEN a ELSE b
Min(a, b) == IF a < b THEN a ELSE b

\* A reallocation returns a block other than the one still in use.
NewAddr(a) == (a + 1) % 3

Zeros(n) == [i \in 1..n |-> 0]

\* An exception passes through, or is thrown again by a catch block.
Throw(b) == [b EXCEPT !.st = "err"]

\* throw kind{}, as a converter of the user's writes it.
Thrown(b, kind) == [b EXCEPT !.st = "err", !.kind = kind]

\* BYTE_CONVERTER_THROW(kind{...}): throw, or std::abort() in a build
\* without exceptions.
Raise(b, kind) ==
    [b EXCEPT !.st = IF exceptions THEN "err" ELSE "abort", !.kind = kind]

EmptyBuffer ==
    [bytes |-> <<>>, cap |-> 0, capHi |-> 0, addr |-> 0, grows |-> <<>>,
     st |-> "ok", kind |-> "", calls |-> <<>>]

\* capacity() < hi * 2^32 + n
CapBelow(b, hi, n) == b.capHi < hi \/ (b.capHi = hi /\ b.cap < n)

\* std::vector::reserve(hi * 2^32 + n), as called by Write.
Reserve(b, hi, n) ==
    IF CapBelow(b, hi, n)
    THEN [b EXCEPT !.cap = n, !.capHi = hi, !.addr = NewAddr(b.addr),
                   !.grows = Append(b.grows, Len(b.bytes))]
    ELSE b

\* std::vector::resize, as called by the converters, Concat and the rollback
\* of Store.  Growing past the capacity reallocates to size + max(size, extra).
Resize(b, n) ==
    LET size == Len(b.bytes) IN
    IF n <= size THEN [b EXCEPT !.bytes = SubSeq(b.bytes, 1, n)]
    ELSE IF ~CapBelow(b, 0, n) THEN [b EXCEPT !.bytes = b.bytes \o Zeros(n - size)]
    ELSE [b EXCEPT !.bytes = b.bytes \o Zeros(n - size),
                   !.cap = size + Max(size, n - size),
                   !.addr = NewAddr(b.addr),
                   !.grows = Append(b.grows, size)]

\* resize(oldSize + n) followed by a copy of n bytes to data() + oldSize.
PutBytes(b, bs) ==
    LET oldSize == Len(b.bytes)
        r == Resize(b, oldSize + Len(bs))
    IN [r EXCEPT !.bytes = SubSeq(r.bytes, 1, oldSize) \o bs]

\* ByteVector::Concat with one argument.
Concat(b, bs) == PutBytes(b, bs)

\* An argument of Concat: another ByteVector or a ByteView of other storage,
\* given by its bytes, or the ByteVector Concat is called on.
ConcatArg(self, bytes) == [self |-> self, bytes |-> bytes]

\* args.size() and args.data() of an argument, read while the buffer is b.
ArgSize(a, b) == IF a.self THEN Len(b.bytes) ELSE Len(a.bytes)
ArgData(a, b) == IF a.self THEN b.bytes ELSE a.bytes

\* (args.size() + ...)
RECURSIVE SumSizes(_, _)
SumSizes(args, b) ==
    IF args = <<>> THEN 0 ELSE ArgSize(Head(args), b) + SumSizes(Tail(args), b)

\* What a byte-by-byte copy from the lowest address leaves in the n bytes
\* from ptr on, cut at the size of the buffer.
RECURSIVE ForwardCopy(_, _, _, _)
ForwardCopy(bytes, ptr, src, i) ==
    IF i > Len(src) \/ ptr + i > Len(bytes) THEN bytes
    ELSE ForwardCopy([bytes EXCEPT ![ptr + i] = src[i]], ptr, src, i + 1)

\* memcpy(ptr, src, n), ptr being data() + ptr and on, the source lying in
\* the buffer itself from data() when inside is set.  A copy that runs past
\* the size of the buffer, or between ranges that overlap, is undefined.
Memcpy(b, ptr, src, inside) ==
    LET n == Len(src) IN
    IF n = 0 THEN b
    ELSE IF ptr + n > Len(b.bytes) \/ (inside /\ ptr < n)
         THEN [b EXCEPT !.bytes = ForwardCopy(b.bytes, ptr, src, 1), !.st = "ub"]
    ELSE [b EXCEPT !.bytes = SubSeq(b.bytes, 1, ptr) \o src
                             \o SubSeq(b.bytes, ptr + n + 1, Len(b.bytes))]

\* A plausible slip in CopyEach: ptr is not moved on after a copy.
RECURSIVE CopyEachInPlace(_, _, _)
CopyEachInPlace(b, ptr, args) ==
    IF args = <<>> THEN [b |-> b, ptr |-> ptr]
    ELSE LET a == Head(args)
             r == Memcpy(b, ptr, ArgData(a, b), a.self)
         IN CopyEachInPlace([r EXCEPT !.st = IF b.st = "ok" THEN r.st ELSE b.st],
                            ptr, Tail(args))

\* ((memcpy(ptr, args.data(), args.size()), (ptr += args.size())), ...):
\* the buffer and the ptr the fold ends with.
RECURSIVE CopyEach(_, _, _)
CopyEach(b, ptr, args) ==
    IF args = <<>> THEN [b |-> b, ptr |-> ptr]
    ELSE LET a == Head(args)
             r == Memcpy(b, ptr, ArgData(a, b), a.self)
         IN CopyEach([r EXCEPT !.st = IF b.st = "ok" THEN r.st ELSE b.st],
                     ptr + ArgSize(a, b), Tail(args))

\* ByteVector::Concat(args...): resize to the old size plus the sizes of
\* the arguments, then copy each of them behind the other.
ConcatArgs(b, args) ==
    LET oldSize == Len(b.bytes) IN
    CopyEach(Resize(b, oldSize + SumSizes(args, b)), oldSize, args)

\* A plausible slip in CountFits: the count is cast to uint32_t before it is
\* compared.
CountFitsAfterCast(n) == n.lo \div 65536 <= 65535

\* numberOfElements <= std::numeric_limits<uint32_t>::max()
CountFits(n) == n.hi = 0 /\ n.lo \div 65536 <= 65535

RECURSIVE Write(_, _)
RECURSIVE Store(_, _)
RECURSIVE ConverterTo(_, _, _)
RECURSIVE WriteEach(_, _, _, _)
RECURSIVE TupleHandlerWrite(_, _, _, _)
RECURSIVE IterableTo(_, _, _)
RECURSIVE VariantTo(_, _, _)

\* ByteVector::Create: a fresh buffer, then Write.
Create(args) == Write(EmptyBuffer, args)


\* A plausible slip in Write: room for the first argument is reserved before
\* the remaining sizes are computed.
WriteReservesEarly(b, args) ==
    LET s1 == ByteVectorSizeOne(args[1].t, args[1].v)
        s == ByteVectorSize(args)
        b1 == Reserve(b, s1.hi, Len(b.bytes) + s1.n)
    IN IF ~s1.ok THEN Thrown(b, "Exception")
       ELSE IF ~s.ok THEN Thrown(b1, "Exception")
       ELSE Store(Reserve(b1, s.hi, Len(b.bytes) + s.n), args)

\* A plausible slip in Write: no reserve, each append grows the buffer itself.
WriteNoReserve(b, args) ==
    LET s == ByteVectorSize(args) IN
    IF ~s.ok THEN Thrown(b, "Exception") ELSE Store(b, args)

\* ByteVector::Write: size everything, reserve once, store.
Write(b, args) ==
    LET s == ByteVectorSize(args) IN
    IF ~s.ok THEN [Thrown(b, "Exception") EXCEPT !.calls = @ \o s.calls]
    ELSE Store([Reserve(b, s.hi, Len(b.bytes) + s.n) EXCEPT !.calls = @ \o s.calls],
               args)

\* A plausible slip in Store: the exception is passed on without the resize.
StoreNoRollback(b, args) ==
    LET t == args[1].t
        v == args[1].v
        made1 == ConverterToCreate(t, v)
        r1 == IF FunctionTo(t) = "createsContainer"
              THEN IF made1.st = "ok" THEN Concat(b, made1.bytes)
                   ELSE Thrown(b, "Exception")
              ELSE ConverterTo(t, v, b)
    IN IF r1.st = "ok" /\ Len(args) > 1 THEN Store(r1, Tail(args)) ELSE r1

\* A plausible slip in Store: oldSize is taken after the first argument was
\* appended, so that the resize undoes the remaining arguments only.
StoreSizeAfterFirst(b, args) ==
    LET t == args[1].t
        v == args[1].v
        made1 == ConverterToCreate(t, v)
        r1 == IF FunctionTo(t) = "createsContainer"
              THEN IF made1.st = "ok" THEN Concat(b, made1.bytes)
                   ELSE Thrown(b, "Exception")
              ELSE ConverterTo(t, v, b)
        oldSize == IF r1.st = "ok" THEN Len(r1.bytes) ELSE Len(b.bytes)
        r2 == IF r1.st = "ok" /\ Len(args) > 1 THEN Store(r1, Tail(args)) ELSE r1
    IN IF r2.st = "err" THEN Throw(Resize(r2, oldSize)) ELSE r2

\* ByteVector::Store: append the first argument, recurse on the rest, and on
\* an exception resize back to the size at entry and rethrow.
Store(b, args) ==
    LET oldSize == Len(b.bytes)
        t == args[1].t
        v == args[1].v
        made1 == ConverterToCreate(t, v)
        r1 == IF FunctionTo(t) = "createsContainer"
              THEN [IF made1.st = "ok" THEN Concat(b, made1.bytes)
                    ELSE Thrown(b, "Exception")
                       EXCEPT !.calls = @ \o Called("To(obj)", t, v) \o made1.calls]
              ELSE ConverterTo(t, v, [b EXCEPT !.calls = @ \o Called("To(obj, bv)", t, v)])
        r2 == IF r1.st = "ok" /\ Len(args) > 1 THEN Store(r1, Tail(args)) ELSE r1
    IN IF r2.st = "err" THEN Throw(Resize(r2, oldSize)) ELSE r2

\* The element loop of ByteConverter<iterable>::To.
WriteEach(b, e, vs, i) ==
    IF b.st # "ok" \/ i > Len(vs) THEN b
    ELSE WriteEach(Write(b, <<Arg(e, vs[i])>>), e, vs, i + 1)

\* A plausible slip in TupleHandlerWrite: the members are written from the
\* last to the first.
RECURSIVE TupleHandlerWriteReversed(_, _, _, _)
TupleHandlerWriteReversed(b, ms, vs, i) ==
    IF b.st # "ok" \/ i > Len(ms) THEN b
    ELSE LET j == Len(ms) + 1 - i IN
         TupleHandlerWriteReversed(Write(b, <<Arg(ms[j], vs[j])>>), ms, vs, i + 1)

\* Detail::TupleHandler<T, N>::Write, member i onwards.
TupleHandlerWrite(b, ms, vs, i) ==
    IF b.st # "ok" \/ i > Len(ms) THEN b
    ELSE TupleHandlerWrite(Write(b, <<Arg(ms[i], vs[i])>>), ms, vs, i + 1)

\* A plausible slip in IterableTo: the count is written after the elements.
IterableToCountLast(t, v, b) ==
    LET numberOfElements == ContainerSize(t, v) IN
    IF CountFits(numberOfElements)
    THEN LET r == WriteEach(b, t.sub[1], Elements(t, v), 1) IN
         IF r.st # "ok" THEN r ELSE Write(r, <<Arg(U32, numberOfElements.lo)>>)
    ELSE Raise(b, "out_of_range")

\* ByteConverter<iterable>::To: the number of elements as a uint32_t when it
\* fits one, else std::out_of_range; then each element in iteration order.
IterableTo(t, v, b) ==
    LET numberOfElements == ContainerSize(t, v) IN
    IF CountFits(numberOfElements)
    THEN WriteEach(Write(b, <<Arg(U32, numberOfElements.lo)>>),
                   t.sub[1], Elements(t, v), 1)
    ELSE Raise(b, "out_of_range")

\* A plausible slip in VariantTo: the selector is the index of the first
\* alternative of the type of the value held, not index().
VariantToByType(t, v, b) ==
    LET first == CHOOSE i \in 0..v.idx :
                    /\ t.sub[i + 1] = t.sub[v.idx + 1]
                    /\ \A j \in 0..(i - 1) : t.sub[j + 1] # t.sub[v.idx + 1]
        r == Store(b, <<Arg(SizeT, Wide(first))>>)
        c == Create(<<Arg(t.sub[v.idx + 1], v.val)>>)
    IN IF r.st # "ok" THEN r
       ELSE IF c.st # "ok"
       THEN [r EXCEPT !.st = c.st, !.kind = c.kind, !.calls = @ \o c.calls]
       ELSE [Concat(r, c.bytes) EXCEPT !.calls = @ \o c.calls]

\* ByteConverter<std::variant<Ts...>>::To: Store(var.index()), then Concat
\* of the ByteVector created from the value held.
VariantTo(t, v, b) ==
    LET r == Store(b, <<Arg(SizeT, Wide(v.idx))>>)
        c == Create(<<Arg(t.sub[v.idx + 1], v.val)>>)
    IN IF r.st # "ok" THEN r
       ELSE IF c.st # "ok"
       THEN [r EXCEPT !.st = c.st, !.kind = c.kind, !.calls = @ \o c.calls]
       ELSE [Concat(r, c.bytes) EXCEPT !.calls = @ \o c.calls]

\* ByteConverter<T>::To(obj, bv) of each converter that expands the buffer.
ConverterTo(t, v, b) ==
    CASE t.k = "scalar" -> PutBytes(b, ToLE(v, t.n))
      [] t.k = "enum" -> Store(b, <<Arg(Scalar(t.n), v)>>)
      [] IsIterableKind(t) -> IterableTo(t, v, b)
      [] t.k = "tuple" -> TupleHandlerWrite(b, t.sub, v, 1)
      [] t.k = "variant" -> VariantTo(t, v, b)
      [] t.k = "path" -> Store(b, <<Arg(t.sub[1], v)>>)
      [] t.k = "tupleconv" -> Store(b, <<Arg(TupleT(t.sub), v)>>)
      [] t.k = "ptrtuple" ->
            Store(b, <<Arg(TupleT(ConvertType(t)), PointerTupleConvert(t, v))>>)
      [] t.k = "user" -> Store(b, <<Arg(t.sub[1], v)>>)
      [] OTHER -> Throw(b)

-----------------------------------------------------------------------------
(* ByteView.  A cursor is [begin, len]: the offset of its first byte in    *)
(* the viewed data and its remaining length.  A decode result is           *)
(* [st, kind, cur, val]; st is "ok", "err" (an exception of the given      *)
(* kind) or "ub" (the view was moved past its end without a check).        *)
(* A size_t that wrapped below zero is kept as its negative representative.*)

Cursor(begin, len) == [begin |-> begin, len |-> len]

\* The next n bytes under the cursor.
Peek(cur, data, n) == SubSeq(data, cur.begin + 1, cur.begin + n)

\* basic_string_view::remove_prefix
RemovePrefix(cur, n) == Cursor(cur.begin + n, cur.len - n)

DecOk(cur, val) ==
    [st |-> "ok", kind |-> "", cur |-> cur, val |-> val, calls |-> <<>>]
\* throw kind{}, as a converter of the user's or the standard library
\* writes it.
DecThrown(cur, kind) ==
    [st |-> "err", kind |-> kind, cur |-> cur, val |-> <<>>, calls |-> <<>>]

\* A plausible slip in DecThrow: the macro throws whatever the build is.
DecThrowAlways(cur, kind) ==
    [st |-> "err", kind |-> kind, cur |-> cur, val |-> <<>>, calls |-> <<>>]

\* BYTE_CONVERTER_THROW(kind{...}) on the decoding side.
DecThrow(cur, kind) ==
    [st |-> IF exceptions THEN "err" ELSE "abort", kind |-> kind, cur |-> cur,
     val |-> <<>>, calls |-> <<>>]

DecUB(cur) == [st |-> "ub", kind |-> "", cur |-> cur, val |-> <<>>, calls |-> <<>>]

\* The elements a basic_string_view of count elements of width w shows.
RECURSIVE ViewElements(_, _, _)
ViewElements(bs, w, count) ==
    IF count = 0 THEN <<>>
    ELSE <<FromLE(SubSeq(bs, 1, w))>> \o ViewElements(SubSeq(bs, w + 1, Len(bs)), w, count - 1)

RECURSIVE From(_, _, _)
RECURSIVE ReadOne(_, _, _)
RECURSIVE GeneratorQueued(_, _, _, _, _)
RECURSIVE TupleHandlerRead(_, _, _, _, _)

\* ByteView::Read<T>() with one type: decode, and on an exception put the
\* cursor back where it was and rethrow.
ReadOne(t, cur, data) ==
    LET r == From(t, cur, data) IN
    IF r.st = "err" THEN [r EXCEPT !.cur = cur] ELSE r

\* Utils::Container::Generator, queued form: pull size elements one by one.
GeneratorQueued(size, e, cur, data, acc) ==
    IF size = 0 THEN DecOk(cur, acc)
    ELSE LET r == ReadOne(e, cur, data) IN
         IF r.st # "ok" THEN r
         ELSE GeneratorQueued(size - 1, e, r.cur, data, Append(acc, r.val))

\* A plausible slip in GeneratorArray: the N elements are pulled first and
\* the count is compared afterwards.
GeneratorArrayChecksLate(size, t, cur, data) ==
    LET r == GeneratorQueued(t.n, t.sub[1], cur, data, <<>>) IN
    IF r.st # "ok" THEN r
    ELSE IF size # t.n THEN DecThrow(r.cur, "runtime_error")
    ELSE r

\* Utils::Container::Generator<std::array<T, N>>: the count must be N, and
\* only then are N elements pulled.
GeneratorArray(size, t, cur, data) ==
    IF size # t.n THEN DecThrow(cur, "runtime_error")
    ELSE GeneratorQueued(t.n, t.sub[1], cur, data, <<>>)

\* A plausible slip in GeneratorView: the remove_prefix after the generator
\* is left out, and the cursor stays at the first element of the view.
GeneratorViewKeepsPrefix(size, e, cur, data) ==
    LET need == size * e.n IN
    IF need <= cur.len
    THEN DecOk(cur, ViewElements(Peek(cur, data, need), e.n, size))
    ELSE DecUB(cur)

\* Utils::Container::Generator for views, direct-memory form, and the
\* remove_prefix that follows it in ByteConverter<iterable>::From: the
\* pointer is advanced by size * sizeof(value_type) with no check.
GeneratorView(size, e, cur, data) ==
    LET need == size * e.n IN
    IF need <= cur.len
    THEN DecOk(RemovePrefix(cur, need), ViewElements(Peek(cur, data, need), e.n, size))
    ELSE DecUB(RemovePrefix(cur, need))

\* Detail::TupleHandler<T, N>::Read, member i onwards.
TupleHandlerRead(ms, i, cur, data, acc) ==
    IF i > Len(ms) THEN DecOk(cur, acc)
    ELSE LET r == ReadOne(ms[i], cur, data) IN
         IF r.st # "ok" THEN r
         ELSE TupleHandlerRead(ms, i + 1, r.cur, data, Append(acc, r.val))

\* A plausible slip in Index: the recursion ends at the last alternative
\* without comparing, so a selector beyond it lands there.
IndexFallsToLast(idx, t, cur, data) ==
    LET i == IF idx.hi = 0 /\ idx.lo < Len(t.sub) THEN idx.lo ELSE Len(t.sub) - 1
        a == ReadOne(t.sub[i + 1], cur, data)
    IN IF a.st # "ok" THEN a ELSE DecOk(a.cur, [idx |-> i, val |-> a.val])

\* ByteConverter<std::variant<Ts...>>::Index with the function From hands
\* it: the alternative whose static index equals idx is read and made the
\* active one; an idx that matches none throws std::runtime_error.
Index(idx, t, cur, data) ==
    IF idx.hi = 0 /\ idx.lo < Len(t.sub)
    THEN LET a == ReadOne(t.sub[idx.lo + 1], cur, data) IN
         IF a.st # "ok" THEN a ELSE DecOk(a.cur, [idx |-> idx.lo, val |-> a.val])
    ELSE DecThrow(cur, "runtime_error")

\* A plausible slip in AssignToMembers: the index sequence is one short and
\* the member the last pointer names is never assigned.
RECURSIVE AssignToMembersOneShort(_, _, _, _)
AssignToMembersOneShort(obj, ptrs, vals, i) ==
    IF i >= Len(ptrs) THEN obj
    ELSE AssignToMembersOneShort([obj EXCEPT ![ptrs[i]] = vals[i]], ptrs, vals, i + 1)

\* PointerTupleConverter<T>::AssignToMembers: obj.*ptr_i = value_i, for
\* each i in turn.
RECURSIVE AssignToMembers(_, _, _, _)
AssignToMembers(obj, ptrs, vals, i) ==
    IF i > Len(ptrs) THEN obj
    ELSE AssignToMembers([obj EXCEPT ![ptrs[i]] = vals[i]], ptrs, vals, i + 1)

\* PointerTupleConverter<T>::From: T{}, then the members MemberPointers()
\* names are assigned from the tuple TupleConverter<T>::Convert(bv) read.
PointerTupleFrom(t, cur, data) ==
    LET valueTpl == ReadOne(TupleT(ConvertType(t)), cur, data) IN
    IF valueTpl.st # "ok" THEN valueTpl
    ELSE DecOk(valueTpl.cur, AssignToMembers(t.dflt, t.ptrs, valueTpl.val, 1))

\* ByteConverter<T>::From of each converter.
From(t, cur, data) ==
    CASE t.k = "scalar" ->
            IF t.n > cur.len THEN DecThrow(cur, "out_of_range")
            ELSE DecOk(RemovePrefix(cur, t.n), FromLE(Peek(cur, data, t.n)))
      [] t.k = "enum" -> ReadOne(Scalar(t.n), cur, data)
      [] t.k \in {"iterable", "filled"} ->
            IF U32.n > cur.len THEN DecThrow(cur, "out_of_range")
            ELSE LET c == ReadOne(U32, cur, data) IN
                 GeneratorQueued(c.val, t.sub[1], c.cur, data, <<>>)
      [] t.k = "array" ->
            IF U32.n > cur.len THEN DecThrow(cur, "out_of_range")
            ELSE LET c == ReadOne(U32, cur, data) IN
                 GeneratorArray(c.val, t, c.cur, data)
      [] t.k = "view" ->
            IF U32.n > cur.len THEN DecThrow(cur, "out_of_range")
            ELSE LET c == ReadOne(U32, cur, data) IN
                 GeneratorView(c.val, t.sub[1], c.cur, data)
      [] t.k = "tuple" -> TupleHandlerRead(t.sub, 1, cur, data, <<>>)
      [] t.k = "variant" ->
            LET c == ReadOne(SizeT, cur, data) IN
            IF c.st # "ok" THEN c
            ELSE Index(c.val, t, c.cur, data)
      [] t.k = "bytes" ->
            IF t.n > cur.len THEN DecThrow(cur, "out_of_range")
            ELSE DecOk(RemovePrefix(cur, t.n), Peek(cur, data, t.n))
      [] t.k = "path" -> ReadOne(t.sub[1], cur, data)
      [] t.k = "tupleconv" -> ReadOne(TupleT(t.sub), cur, data)
      [] t.k = "ptrtuple" -> PointerTupleFrom(t, cur, data)
      [] t.k = "user" -> ReadOne(t.sub[1], cur, data)
      [] OTHER -> DecThrown(cur, "Exception")

\* A plausible slip in Read: the catch block rethrows without *this = copy.
RECURSIVE ReadNoRestore(_, _, _)
ReadNoRestore(ts, cur, data) ==
    LET r1 == From(ts[1], cur, data) IN
    IF r1.st = "ok" /\ Len(ts) > 1
    THEN LET rest == ReadNoRestore(Tail(ts), r1.cur, data) IN
         [rest EXCEPT !.val = <<r1.val>> \o rest.val]
    ELSE [r1 EXCEPT !.val = IF r1.st = "ok" THEN <<r1.val>> ELSE <<>>]

\* A plausible slip in Read: the remaining types are read from the copy,
\* that is from where the call began.
RECURSIVE ReadFromCopy(_, _, _)
ReadFromCopy(ts, cur, data) ==
    LET r1 == From(ts[1], cur, data)
        r2 == IF r1.st = "ok" /\ Len(ts) > 1
              THEN LET rest == ReadFromCopy(Tail(ts), cur, data) IN
                   [rest EXCEPT !.val = <<r1.val>> \o rest.val]
              ELSE [r1 EXCEPT !.val = IF r1.st = "ok" THEN <<r1.val>> ELSE <<>>]
    IN IF r2.st = "err" THEN [r2 EXCEPT !.cur = cur] ELSE r2

\* ByteView::Read<T, Ts...>(): the values are returned as one tuple; an
\* exception anywhere restores the cursor of this call and is rethrown.
RECURSIVE Read(_, _, _)
Read(ts, cur, data) ==
    LET r1 == [From(ts[1], cur, data) EXCEPT !.calls = Called("From", ts[1], 0)]
        r2 == IF r1.st = "ok" /\ Len(ts) > 1
              THEN LET rest == Read(Tail(ts), r1.cur, data) IN
                   [rest EXCEPT !.val = <<r1.val>> \o rest.val,
                                !.calls = r1.calls \o @]
              ELSE [r1 EXCEPT !.val = IF r1.st = "ok" THEN <<r1.val>> ELSE <<>>]
    IN IF r2.st = "err" THEN [r2 EXCEPT !.cur = cur] ELSE r2

\* A plausible slip in ReaderRead: the fold runs from the last variable to
\* the first.
RECURSIVE ReaderReadRightToLeft(_, _, _, _)
ReaderReadRightToLeft(ts, cur, data, acc) ==
    IF ts = <<>> THEN DecOk(cur, acc)
    ELSE LET r == ReadOne(ts[Len(ts)], cur, data) IN
         IF r.st # "ok" THEN [r EXCEPT !.val = acc]
         ELSE ReaderReadRightToLeft(SubSeq(ts, 1, Len(ts) - 1), r.cur, data,
                                    <<r.val>> \o acc)

\* A plausible slip in ReaderRead: std::tie(ts...) = m_byteView.Read<Ts...>(),
\* one Read of all the types, which assigns nothing when a field fails.
ReaderReadAsOneRead(ts, cur, data, acc) ==
    LET r == Read(ts, cur, data) IN
    IF r.st = "ok" THEN r ELSE [r EXCEPT !.val = acc]

\* ByteReader::Read(ts...): ((ts = m_byteView.Read<decltype(ts)>()), ...),
\* one single-type Read per variable, from the first to the last.  The value
\* of the result is what has been assigned so far.
RECURSIVE ReaderRead(_, _, _, _)
ReaderRead(ts, cur, data, acc) ==
    IF ts = <<>> THEN DecOk(cur, acc)
    ELSE LET r == ReadOne(ts[1], cur, data) IN
         IF r.st # "ok" THEN [r EXCEPT !.val = acc, !.calls = Called("From", ts[1], 0)]
         ELSE [ReaderRead(Tail(ts), r.cur, data, Append(acc, r.val))
                 EXCEPT !.calls = Called("From", ts[1], 0) \o @]

\* A plausible slip in ReadBytes: a request for more than is left is cut down
\* to what is left.
ReadBytesClamps(n, cur, data) ==
    IF n > cur.len THEN DecOk(RemovePrefix(cur, cur.len), Peek(cur, data, cur.len))
    ELSE DecOk(RemovePrefix(cur, n), Peek(cur, data, n))

\* ByteView::Read(byteCount)
ReadBytes(n, cur, data) ==
    IF n > cur.len THEN DecThrow(cur, "out_of_range")
    ELSE DecOk(RemovePrefix(cur, n), Peek(cur, data, n))

\* ByteView::SubString(offset, count): basic_string_view::substr.
SubString(offset, count, cur) ==
    IF offset > cur.len THEN DecThrown(cur, "out_of_range")
    ELSE LET rlen == IF count < cur.len - offset THEN count ELSE cur.len - offset
         IN DecOk(Cursor(cur.begin + offset, rlen), <<>>)

-----------------------------------------------------------------------------
(* The values the machine is driven with.                                  *)

StringT == Iter(U8)
Variant3 == VariantT(<<SizeT, StringT, StringT>>)
VariantB == VariantT(<<U8, BrokenType>>)
PairT == TupleT(<<U16, U32>>)
MapT == Iter(TupleT(<<U8, U16>>))
WString == Iter(U16)
Path == PathT(WString)
SimpleType == TupleConv(<<U16, U32>>)
TypeC == TupleConv(<<U16, StringT>>)
\* struct D { uint16_t m_a; std::string m_b = "..."; uint32_t m_c; } with
\* MemberPointers() == (&D::m_a, &D::m_c); the default string is shortened
\* to its first two characters.
DefaultB == <<83, 116>>
TypeD == PointerTupleConv(<<U16, StringT, U32>>, <<1, 3>>, <<0, DefaultB, 0>>)

\* Arguments that encode and decode without an exception.
GoodValues ==
    { Arg(U8, 2),
      Arg(U16, 7),
      Arg(EnumT(4), 1),
      Arg(StringT, <<1, 2>>),
      Arg(Iter(StringT), << <<1>>, <<>> >>),
      Arg(Iter(U32), <<2, 3, 5>>),
      Arg(ViewT(U8), <<2, 1>>),
      Arg(ArrayT(U16, 2), <<7, 300>>),
      Arg(PairT, <<7, 13>>),
      Arg(MapT, << <<2, 7>> >>),
      Arg(Path, <<47, 300>>),
      Arg(Variant3, [idx |-> 2, val |-> <<1>>]),
      Arg(Variant3, [idx |-> 1, val |-> <<1>>]),
      Arg(SimpleType, <<7, 13>>),
      Arg(TypeC, <<7, <<1>>>>),
      Arg(TypeD, <<7, <<1>>, 13>>),
      Arg(TypeD, <<3, DefaultB, 300>>) }

\* Arguments with a BrokenType inside: its Size throws when the flag is set,
\* its To always throws.
BrokenValues ==
    { Arg(BrokenType, TRUE),
      Arg(BrokenType, FALSE),
      Arg(Iter(BrokenType), <<FALSE>>),
      Arg(TupleT(<<U8, BrokenType>>), <<2, TRUE>>),
      Arg(VariantB, [idx |-> 1, val |-> FALSE]) }

\* std::vector<uint8_t>(count, value): one of 2^32 elements, whose count
\* does not fit the 4-byte header, and one of two.
Huge == Arg(FilledT(U8), [count |-> [hi |-> 1, lo |-> 0], elem |-> 0])
FilledValues == { Huge, Arg(FilledT(U8), [count |-> Wide(2), elem |-> 7]) }

ArgValues == GoodValues \cup BrokenValues \cup FilledValues

\* Calls with more than two arguments, and calls that follow another call,
\* draw their arguments from these.
CoreValues ==
    { Arg(U8, 2),
      Arg(StringT, <<1, 2>>),
      Arg(Variant3, [idx |-> 2, val |-> <<1>>]),
      Arg(BrokenType, TRUE),
      Arg(BrokenType, FALSE),
      Arg(Iter(BrokenType), <<FALSE>>) }

\* BrokenType and its converter throw: a build without exceptions has none.
RECURSIVE HasBroken(_)
HasBroken(t) == t.k = "broken" \/ \E i \in 1..Len(t.sub) : HasBroken(t.sub[i])

Builds(t) == exceptions \/ ~HasBroken(t)

ArgLists(k) ==
    { args \in IF k <= 2 /\ items = 0 THEN [1..k -> ArgValues] ELSE [1..k -> CoreValues] :
        \A i \in 1..k : Builds(args[i].t) }

\* The same for the calls whose result is decoded afterwards.
GoodLists(k) ==
    IF k = 1 THEN [1..1 -> GoodValues] ELSE [1..k -> CoreValues \cap GoodValues]

TypesOf(args) == [i \in 1..Len(args) |-> args[i].t]
ValuesOf(args) == [i \in 1..Len(args) |-> args[i].v]

\* The types a Read<...>() call may name.
DecodeTypes ==
    { a.t : a \in GoodValues } \cup { U32, BytesT(2), BrokenType, ArrayT(U16, 3), VariantB }

\* Read calls with several types, and Read calls that follow another one on
\* the same view, draw their types from these and from the types last created.
CoreTypes == { U8, StringT, ViewT(U8) }

TypeLists(k, first) ==
    { ts \in IF k = 1 /\ first THEN [1..1 -> DecodeTypes] ELSE [1..k -> CoreTypes] :
        \A i \in 1..k : Builds(ts[i]) }
        \cup (IF Len(made) = k THEN {TypesOf(made)} ELSE {})

-----------------------------------------------------------------------------
(* State.                                                                  *)

Bv(b) == [bytes |-> b.bytes, cap |-> b.cap, capHi |-> b.capHi, addr |-> b.addr]
InCall(b) == [bytes |-> b.bytes, cap |-> b.cap, capHi |-> b.capHi, addr |-> b.addr,
              grows |-> <<>>, st |-> "ok", kind |-> "", calls |-> <<>>]

NoView == [live |-> FALSE, ub |-> FALSE, begin |-> 0, len |-> 0, lo |-> 0, hi |-> 0]
NoHist == [valid |-> FALSE, failed |-> FALSE, used |-> 0, start |-> Cursor(0, 0),
           types |-> <<>>, vals |-> <<>>]

NoLast ==
    [op |-> "none", st |-> "ok", kind |-> "", phase |-> "", args |-> <<>>,
     types |-> <<>>, pre |-> Bv(EmptyBuffer), preView |-> NoView, val |-> <<>>,
     size |-> 0, grows |-> <<>>, n |-> 0, m |-> 0, calls |-> <<>>, sized |-> <<>>]

CurOf(w) == Cursor(w.begin, w.len)

\* ByteVector{} and ByteVector(std::vector<uint8_t>{1, 2}).
InitBuffers ==
    { Bv(EmptyBuffer), [bytes |-> <<1, 2>>, cap |-> 2, capHi |-> 0, addr |-> 1] }

Started ==
    /\ bv \in InitBuffers
    /\ view = NoView
    /\ last = NoLast
    /\ made = <<>>
    /\ pops = 0
    /\ hist = NoHist
    /\ items = 0
    /\ aborted = FALSE
    /\ saved = NoView
    /\ base = bv.bytes

\* A build with exceptions.
Init == Started /\ exceptions = TRUE

\* A build with BYTE_CONVERTER_NO_EXCEPTIONS, or by a compiler without
\* exceptions.
InitNoExceptions == Started /\ exceptions = FALSE

-----------------------------------------------------------------------------
(* Calls on the ByteVector.                                                *)

\* bv.Write(args...)
DoWrite(args) ==
    LET b0 == InCall(bv)
        s == ByteVectorSize(args)
        r == Write(b0, args)
    IN /\ bv' = Bv(r)
       /\ last' = [NoLast EXCEPT !.op = "Write", !.st = r.st, !.kind = r.kind,
                                 !.args = args,
                                 !.phase = IF r.st = "ok" THEN ""
                                           ELSE IF s.ok THEN "store" ELSE "size",
                                 !.pre = bv, !.size = s.n, !.grows = r.grows,
                                 !.calls = r.calls, !.sized = s.calls]
       /\ made' = IF r.st = "ok" THEN made \o args ELSE made
       /\ view' = NoView
       /\ hist' = NoHist
       /\ aborted' = (r.st = "abort")
       /\ saved' = NoView
       /\ UNCHANGED <<pops, exceptions, base>>

\* bv = ByteVector::Create(args...); nothing is assigned when it throws.
DoCreate(args) ==
    LET s == ByteVectorSize(args)
        r == Create(args)
    IN /\ bv' = IF r.st = "ok" THEN Bv(r) ELSE bv
       /\ last' = [NoLast EXCEPT !.op = "Create", !.st = r.st, !.kind = r.kind,
                                 !.args = args,
                                 !.phase = IF r.st = "ok" THEN ""
                                           ELSE IF s.ok THEN "store" ELSE "size",
                                 !.size = s.n, !.grows = r.grows,
                                 !.calls = r.calls, !.sized = s.calls]
       /\ made' = IF r.st = "ok" THEN args ELSE made
       /\ pops' = IF r.st = "ok" THEN 0 ELSE pops
       /\ view' = NoView
       /\ hist' = NoHist
       /\ aborted' = (r.st = "abort")
       /\ saved' = NoView
       /\ base' = IF r.st = "ok" THEN <<>> ELSE base
       /\ UNCHANGED exceptions

WriteCall ==
    /\ ~aborted
    /\ \E k \in 1..(MaxItems - items) : \E args \in ArgLists(k) :
        /\ items' = items + k
        /\ DoWrite(args)

CreateCall ==
    /\ ~aborted
    /\ \E k \in 1..(MaxItems - items) : \E args \in ArgLists(k) :
        /\ items' = items + k
        /\ DoCreate(args)

NextWrite == WriteCall \/ CreateCall

SpecWrite == Init /\ [][NextWrite]_vars

-----------------------------------------------------------------------------
(* Claims about Write, Create and Size.                                    *)

WasWrite == last.op = "Write"
WasEncode == last.op \in {"Write", "Create"}
PreSize == Len(last.pre.bytes)

\* C2: when the Size computation of any argument of Write(args...) throws,
\* the buffer after the error is the buffer before the call: same bytes,
\* same size, same capacity, same start address.
C2_SizePhaseStrongGuarantee ==
    (WasWrite /\ ~ByteVectorSize(last.args).ok)
        => (last.st = "err" /\ bv = last.pre)

\* A populated buffer too small for the first argument, whose Size succeeds,
\* and a later argument whose Size throws.
C2_Witness ==
    /\ WasWrite
    /\ Len(last.args) >= 2
    /\ ByteVectorSizeOne(last.args[1].t, last.args[1].v).ok
    /\ ~ByteVectorSize(last.args).ok
    /\ PreSize > 0
    /\ CapBelow(last.pre, 0, PreSize + ByteVectorSizeOne(last.args[1].t, last.args[1].v).n)
    /\ last.st = "err"

C5_SingleAllocation ==
    (WasEncode /\ last.st = "ok")
        => last.grows = IF CapBelow(last.pre, 0, PreSize + last.size)
                        THEN <<PreSize>> ELSE <<>>

\* Three arguments, a container and a variant among them, written to a
\* populated buffer that was too small.
C5_Witness ==
    /\ WasWrite
    /\ last.st = "ok"
    /\ Len(last.args) = 3
    /\ \E i \in 1..3 : last.args[i].t = StringT
    /\ \E i \in 1..3 : last.args[i].t = Variant3
    /\ PreSize > 0
    /\ CapBelow(last.pre, 0, PreSize + last.size)
    /\ last.grows = <<PreSize>>

\* C6: a successful Write or Create increases the size of the buffer by
\* exactly Size(args...).
C6_SizeExact ==
    (WasEncode /\ last.st = "ok")
        => (/\ last.size = ByteVectorSize(last.args).n
            /\ Len(bv.bytes) = PreSize + last.size)

\* A vector of strings (element size known only at run time) was created.
C6_Witness ==
    /\ last.op = "Create"
    /\ last.st = "ok"
    /\ last.args = <<Arg(Iter(StringT), << <<1>>, <<>> >>)>>
    /\ Len(bv.bytes) = 13

\* C7: Size(a) + Size(b) = Size(a, b) and
\* Create(a, b).size() = Create(a).size() + Create(b).size().
C7_NoOverhead ==
    (last.op = "Create" /\ last.st = "ok" /\ Len(last.args) = 2)
        => LET a == <<last.args[1]>>
               b == <<last.args[2]>>
           IN /\ ByteVectorSize(a).n + ByteVectorSize(b).n = last.size
              /\ Len(Create(a).bytes) + Len(Create(b).bytes) = Len(bv.bytes)

\* A string and a variant were created together.
C7_Witness ==
    /\ last.op = "Create"
    /\ last.st = "ok"
    /\ Len(last.args) = 2
    /\ last.args[1].t = StringT
    /\ last.args[2].t = Variant3

-----------------------------------------------------------------------------
(* Calls that decode: a buffer is created, possibly cut short, viewed and  *)
(* read.                                                                   *)

\* bv = ByteVector::Create(args...) with arguments that encode, once in a
\* run.  The buffer is left alone while a view of it is live: the view would
\* dangle, and a second view of the same buffer starts exactly as the first.
EncodeCall ==
    /\ ~aborted
    /\ ~view.live
    /\ items = 0
    /\ \E k \in 1..MaxReadArgs : \E args \in GoodLists(k) :
        /\ items' = items + k
        /\ DoCreate(args)

\* bv.pop_back(): the buffer no longer is what Create returned.
PopBackCall ==
    /\ ~aborted
    /\ ~view.live
    /\ pops < MaxPops
    /\ Len(bv.bytes) > 0
    /\ bv' = [bv EXCEPT !.bytes = SubSeq(bv.bytes, 1, Len(bv.bytes) - 1)]
    /\ pops' = pops + 1
    /\ made' = <<>>
    /\ view' = NoView
    /\ hist' = NoHist
    /\ last' = [NoLast EXCEPT !.op = "pop_back", !.pre = bv]
    /\ saved' = NoView
    /\ base' = bv'.bytes
    /\ UNCHANGED <<items, aborted, exceptions>>

\* BYTE_CONVERTER_THROW in the constructors of ByteView.
CtorThrow == DecThrow(Cursor(0, 0), "out_of_range").st

NewView(begin, len) ==
    [live |-> TRUE, ub |-> FALSE, begin |-> begin, len |-> len,
     lo |-> begin, hi |-> begin + len]

NewHist(begin, len) == [NoHist EXCEPT !.valid = TRUE, !.start = Cursor(begin, len)]

\* ByteView{bv, offset}
ViewCall ==
    /\ ~aborted
    /\ ~view.live
    /\ \E offset \in 0..MaxOffset :
        LET ok == ~(offset > Len(bv.bytes)) IN
        /\ view' = IF ok THEN NewView(offset, Len(bv.bytes) - offset) ELSE NoView
        /\ hist' = IF ok THEN NewHist(offset, Len(bv.bytes) - offset) ELSE NoHist
        /\ last' = [NoLast EXCEPT !.op = "ByteView", !.n = offset, !.pre = bv,
                                  !.st = IF ok THEN "ok" ELSE CtorThrow,
                                  !.kind = IF ok THEN "" ELSE "out_of_range"]
        /\ aborted' = (~ok /\ CtorThrow = "abort")
    /\ UNCHANGED <<bv, made, pops, items, exceptions, saved, base>>

\* ByteView{bv.begin() + i, bv.begin() + j}
ViewIterCall ==
    /\ ~aborted
    /\ ~view.live
    /\ \E i \in 0..MaxOffset, j \in 0..MaxOffset :
        LET ok == ~(i > j) IN
        /\ i <= Len(bv.bytes)
        /\ j <= Len(bv.bytes)
        /\ view' = IF ok THEN NewView(i, j - i) ELSE NoView
        /\ hist' = IF ok THEN NewHist(i, j - i) ELSE NoHist
        /\ last' = [NoLast EXCEPT !.op = "ByteViewIter", !.n = i, !.m = j, !.pre = bv,
                                  !.st = IF ok THEN "ok" ELSE CtorThrow,
                                  !.kind = IF ok THEN "" ELSE "out_of_range"]
        /\ aborted' = (~ok /\ CtorThrow = "abort")
    /\ UNCHANGED <<bv, made, pops, items, exceptions, saved, base>>

CanRead == view.live /\ ~view.ub /\ ~aborted

\* A plausible slip in OtherView: the copy follows the view it was made of.
OtherViewShared(w, cur) ==
    IF w.live THEN [w EXCEPT !.begin = cur.begin, !.len = cur.len] ELSE w

\* What a ByteView object w is after another ByteView was moved to cur.
\* ByteView is a std::basic_string_view: each object holds its own pointer
\* and length, and remove_prefix changes those of *this alone.
OtherView(w, cur) == w

Moved(cur) == [view EXCEPT !.begin = cur.begin, !.len = cur.len]

\* view.Read<T, Ts...>().  A view moved past its end without a check is
\* undefined: the hardened library stops the program in remove_prefix, the
\* plain one leaves a cursor beyond the data with a wrapped length.
ReadCall ==
    /\ CanRead
    /\ \E k \in 1..(MaxTypes - hist.used) :
       \E ts \in TypeLists(k, hist.used = 0) :
        LET r == Read(ts, CurOf(view), bv.bytes) IN
        /\ last' = [NoLast EXCEPT !.op = "Read", !.st = r.st, !.kind = r.kind,
                                  !.types = ts, !.pre = bv, !.preView = view,
                                  !.val = r.val, !.calls = r.calls]
        /\ saved' = OtherView(saved, r.cur)
        /\ hist' = IF hist.valid /\ ~hist.failed
                   THEN [hist EXCEPT !.types = hist.types \o ts,
                                     !.used = hist.used + k,
                                     !.vals = IF r.st = "ok" THEN hist.vals \o r.val
                                              ELSE hist.vals,
                                     !.failed = r.st # "ok"]
                   ELSE [NoHist EXCEPT !.used = hist.used + k]
        /\ \/ /\ r.st # "ub"
              /\ view' = Moved(r.cur)
              /\ aborted' = (r.st = "abort")
           \/ /\ r.st = "ub"
              /\ view' = [Moved(r.cur) EXCEPT !.ub = TRUE]
              /\ UNCHANGED aborted
           \/ /\ r.st = "ub"
              /\ aborted' = TRUE
              /\ UNCHANGED view
    /\ UNCHANGED <<bv, made, pops, items, exceptions, base>>

\* ByteReader{view}.Read(v1, ..., vk), the variables being of the types ts.
ReaderCall ==
    /\ CanRead
    /\ \E k \in 1..(MaxTypes - hist.used) :
       \E ts \in TypeLists(k, hist.used = 0) :
        LET r == ReaderRead(ts, CurOf(view), bv.bytes, <<>>) IN
        /\ last' = [NoLast EXCEPT !.op = "ReaderRead", !.st = r.st, !.kind = r.kind,
                                  !.types = ts, !.pre = bv, !.preView = view,
                                  !.val = r.val]
        /\ saved' = OtherView(saved, r.cur)
        /\ hist' = [NoHist EXCEPT !.used = hist.used + k]
        /\ \/ /\ r.st # "ub"
              /\ view' = Moved(r.cur)
              /\ aborted' = (r.st = "abort")
           \/ /\ r.st = "ub"
              /\ view' = [Moved(r.cur) EXCEPT !.ub = TRUE]
              /\ UNCHANGED aborted
           \/ /\ r.st = "ub"
              /\ aborted' = TRUE
              /\ UNCHANGED view
    /\ UNCHANGED <<bv, made, pops, items, exceptions, base>>

\* view.Read(byteCount)
ReadBytesCall ==
    /\ CanRead
    /\ hist.used < MaxTypes
    /\ \E n \in 0..MaxCount :
        LET r == ReadBytes(n, CurOf(view), bv.bytes) IN
        /\ view' = Moved(r.cur)
        /\ last' = [NoLast EXCEPT !.op = "ReadBytes", !.st = r.st, !.kind = r.kind,
                                  !.n = n, !.pre = bv, !.preView = view,
                                  !.val = r.val]
        /\ aborted' = (r.st = "abort")
        /\ saved' = OtherView(saved, r.cur)
    /\ hist' = [NoHist EXCEPT !.used = hist.used + 1]
    /\ UNCHANGED <<bv, made, pops, items, exceptions, base>>

\* view = view.SubString(offset, count).  The exception of substr is the
\* standard library's own: a build whose compiler has no exceptions calls
\* std::abort() in its place, one that only defines
\* BYTE_CONVERTER_NO_EXCEPTIONS still throws it.
SubStringCall ==
    /\ CanRead
    /\ hist.used < MaxTypes
    /\ \E offset \in 0..MaxOffset, count \in 0..MaxCount :
        LET r == SubString(offset, count, CurOf(view)) IN
        /\ view' = Moved(r.cur)
        /\ saved' = OtherView(saved, r.cur)
        /\ \/ /\ UNCHANGED aborted
              /\ last' = [NoLast EXCEPT !.op = "SubString", !.st = r.st,
                                        !.kind = r.kind, !.n = offset, !.m = count,
                                        !.pre = bv, !.preView = view]
           \/ /\ ~exceptions
              /\ r.st = "err"
              /\ aborted' = TRUE
              /\ last' = [NoLast EXCEPT !.op = "SubString", !.st = "abort",
                                        !.kind = r.kind, !.n = offset, !.m = count,
                                        !.pre = bv, !.preView = view]
    /\ hist' = [NoHist EXCEPT !.used = hist.used + 1]
    /\ UNCHANGED <<bv, made, pops, items, exceptions, base>>

NextRead ==
    \/ EncodeCall
    \/ PopBackCall
    \/ ViewCall
    \/ ViewIterCall
    \/ ReadCall
    \/ ReaderCall
    \/ ReadBytesCall
    \/ SubStringCall

SpecRead == Init /\ [][NextRead]_vars

\* ByteView copy = view;
CopyCall ==
    /\ CanRead
    /\ ~saved.live
    /\ saved' = view
    /\ UNCHANGED <<bv, view, last, made, pops, hist, items, aborted, exceptions, base>>

\* auto view = ByteView{ bv }; once more, after a view of bv was read from.
ViewAgainCall ==
    /\ CanRead
    /\ hist.used > 0
    /\ view' = NewView(0, Len(bv.bytes))
    /\ hist' = [NewHist(0, Len(bv.bytes)) EXCEPT !.used = hist.used]
    /\ last' = [NoLast EXCEPT !.op = "ByteView", !.pre = bv]
    /\ UNCHANGED <<bv, made, pops, items, aborted, exceptions, saved, base>>

\* The reading calls with views copied and made again.
NextCopy ==
    \/ EncodeCall
    \/ ViewCall
    \/ ReadCall
    \/ ReaderCall
    \/ ReadBytesCall
    \/ CopyCall
    \/ ViewAgainCall

SpecCopy == Init /\ [][NextCopy]_vars

-----------------------------------------------------------------------------
(* Instantiation of ByteConverter<T>.                                      *)

\* Whether a call of Write, Size or Read<T> with a type T compiles: Write
\* and Store are left out of the overload set when ByteConverter<T> has no
\* To (Detail::WriteCondition), Size and Read name ByteConverter<T>::To and
\* ByteConverter<T>::From, none of which the empty primary template has.
Compiles(x, use) == Resolve(x) \notin {"none", "ambiguous"}

\* A program names ByteConverter<T> for a type T in a call of Write, Size
\* or Read<T>.
ResolveCall ==
    /\ ~aborted
    /\ \E x \in Traits, use \in {"Write", "Size", "Read"} :
        /\ IsType(x)
        /\ last' = [NoLast EXCEPT !.op = "Resolve", !.args = <<x>>,
                                  !.phase = use,
                                  !.st = IF Compiles(x, use) THEN "ok" ELSE "rejected",
                                  !.val = <<Resolve(x)>>]
    /\ UNCHANGED <<bv, view, made, pops, hist, items, aborted, exceptions, saved, base>>

NextResolve == ResolveCall

SpecResolve == Init /\ [][NextResolve]_vars

-----------------------------------------------------------------------------
(* Concat.                                                                 *)

\* The buffers joined to bv: empty, ByteVector::Create(3, 5) and
\* ByteVector::Create(8, 13), the numbers being of one byte.
Parts ==
    { <<>>, Create(<<Arg(U8, 3), Arg(U8, 5)>>).bytes,
      Create(<<Arg(U8, 8), Arg(U8, 13)>>).bytes }

ConcatLists(k) ==
    [1..k -> { ConcatArg(FALSE, p) : p \in Parts } \cup { ConcatArg(TRUE, <<>>) }]

\* bv.Concat(args...).  A memcpy whose behaviour is undefined either ends
\* the process or returns, having written up to where it was told to.
ConcatCall ==
    /\ ~aborted
    /\ \E k \in 1..Min(MaxReadArgs, MaxItems - items) : \E args \in ConcatLists(k) :
        LET r == ConcatArgs(InCall(bv), args) IN
        /\ items' = items + k
        /\ \/ /\ bv' = Bv(r.b)
              /\ UNCHANGED aborted
           \/ /\ r.b.st = "ub"
              /\ aborted' = TRUE
              /\ UNCHANGED bv
        /\ last' = [NoLast EXCEPT !.op = "Concat", !.st = r.b.st, !.args = args,
                                  !.pre = bv, !.n = SumSizes(args, bv), !.m = r.ptr,
                                  !.val = [i \in 1..k |-> ArgData(args[i], r.b)],
                                  !.grows = r.b.grows]
    /\ made' = <<>>
    /\ base' = bv'.bytes
    /\ view' = NoView
    /\ saved' = NoView
    /\ hist' = NoHist
    /\ UNCHANGED <<pops, exceptions>>

NextConcat == ConcatCall

SpecConcat == Init /\ [][NextConcat]_vars

\* bv.Write(args...) with containers whose element count is chosen freely.
WriteCountedCall ==
    /\ ~aborted
    /\ ~view.live
    /\ items = 0
    /\ \E k \in 1..MaxReadArgs : \E args \in [1..k -> FilledValues \cup {Arg(U8, 2)}] :
        /\ items' = items + k
        /\ DoWrite(args)

\* The calls of a program in a build without exceptions.
NextNoExceptions == WriteCountedCall \/ NextRead

SpecNoExceptions == InitNoExceptions /\ [][NextNoExceptions]_vars

\* The converters of the user's that build: each set of Size functions with
\* each set of To functions the static_assert lets through.
UserTypes ==
    { t \in { UserConv(U32, sizes, tos) :
                 sizes \in SUBSET {"Size()", "Size(obj)"},
                 tos \in SUBSET {"To(obj, bv)", "To(obj)"} } : Deducible(t) }

\* The arguments of the calls that count the calls of the converters.
SignatureValues ==
    { Arg(t, 5) : t \in UserTypes }
        \cup { Arg(U8, 2), Arg(BrokenType, TRUE), Arg(BrokenType, FALSE) }

\* bv.Write(args...) with arguments whose converters are the user's.
SignatureWriteCall ==
    /\ ~aborted
    /\ ~view.live
    /\ items = 0
    /\ \E k \in 1..MaxReadArgs : \E args \in [1..k -> SignatureValues] :
        /\ items' = items + k
        /\ DoWrite(args)

\* bv = ByteVector::Create(args...) with such arguments.
SignatureCreateCall ==
    /\ ~aborted
    /\ ~view.live
    /\ items = 0
    /\ \E k \in 1..MaxReadArgs : \E args \in [1..k -> SignatureValues] :
        /\ items' = items + k
        /\ DoCreate(args)

\* The types of the members of a type whose converter lists them.
MemberTypes ==
    { U8, U16, EnumT(4), StringT, SimpleType,
      UserConv(U32, {"Size()"}, {"To(obj, bv)"}) }

\* Values of a member of type m, the first of them the one M{} has.
MemberValues(m) ==
    CASE m = U8 -> <<0, 2>>
      [] m = U16 -> <<0, 300>>
      [] m = StringT -> << <<>>, <<1, 2>> >>
      [] m = SimpleType -> << <<0, 0>> >>
      [] OTHER -> <<0>>

\* The strictly increasing lists of indices below n + 1: the members a
\* MemberPointers() may name, in the order of their declaration.
Increasing(n) ==
    { p \in UNION { [1..k -> 1..n] : k \in 1..n } :
        \A i \in 1..(Len(p) - 1) : p[i] < p[i + 1] }

\* The types whose converters derive from TupleConverter, with Convert
\* naming every member, or from PointerTupleConverter.
ConverterTypes ==
    UNION { { TupleConv(ms) : ms \in [1..k -> MemberTypes] }
            \cup { PointerTupleConv(ms, p, [i \in 1..k |-> MemberValues(ms[i])[1]]) :
                      ms \in [1..k -> MemberTypes], p \in Increasing(k) } :
            k \in 1..MaxMembers }

\* The values of a type of the members ms: each member has its first or its
\* last value.
ConverterValues(ms) ==
    { [i \in 1..Len(ms) |->
         IF pick[i] = 1 THEN MemberValues(ms[i])[1]
         ELSE MemberValues(ms[i])[Len(MemberValues(ms[i]))]] :
      pick \in [1..Len(ms) -> 1..2] }

\* ConverterDeduction<T>::FunctionSize, ByteConverter<T>::Size() where there
\* is one, and ByteVector::Size(obj), for a T with such a converter.
SizeCall ==
    /\ ~aborted
    /\ last.op = "none"
    /\ \E t \in ConverterTypes : \E v \in ConverterValues(t.sub) :
        LET s == ByteVectorSizeOne(t, v) IN
        last' = [NoLast EXCEPT !.op = "Size", !.args = <<Arg(t, v)>>,
                               !.phase = FunctionSize(t),
                               !.n = IF FunctionSize(t) = "compileTime"
                                     THEN StaticSize(t) ELSE 0,
                               !.size = s.n,
                               !.st = IF s.ok THEN "ok" ELSE "err"]
    /\ UNCHANGED <<bv, view, made, pops, hist, items, aborted, exceptions, saved, base>>

NextSize == SizeCall

SpecSize == Init /\ [][NextSize]_vars

\* Write or Create once, then views of the buffer and reads from them.
NextSignature == SignatureWriteCall \/ SignatureCreateCall \/ ViewCall \/ ReadCall

SpecSignature == Init /\ [][NextSignature]_vars

-----------------------------------------------------------------------------
(* Claims about ByteView and Read.                                         *)

WasRead == last.op = "Read"
PreCur == CurOf(last.preView)

\* The whole of the buffer, as ByteView{bv} sees it.
Whole == Cursor(0, Len(bv.bytes))

C4_ReadAllOrNothing ==
    (WasRead /\ last.st = "err")
        => (view.begin = last.preView.begin /\ view.len = last.preView.len)

\* A call with two types whose first type was decoded and moved the cursor
\* before the second one threw.
C4_Witness ==
    /\ WasRead
    /\ last.st = "err"
    /\ Len(last.types) = 2
    /\ From(last.types[1], PreCur, bv.bytes).st = "ok"
    /\ From(last.types[1], PreCur, bv.bytes).cur.begin > PreCur.begin
    /\ view.len > 0

\* What one Read call naming all the types read so far gives from where the
\* view began.
OneCall == Read(hist.types, hist.start, bv.bytes)

\* A type sequence has been read in consecutive calls since the view was
\* made, and no call was made after one that failed.
Split == hist.valid /\ hist.types # <<>> /\ ~aborted

\* C8 as stated: however a type sequence is split into consecutive Read
\* calls, the decoded values and the final cursor are those of the single
\* call naming the whole sequence.
C8_AnySplitSameResult ==
    Split => (/\ CurOf(view) = OneCall.cur
              /\ OneCall.st = "ok" => OneCall.val = hist.vals)

\* C8, amended: a split all of whose calls succeed yields the values and the
\* final cursor of the single call, which succeeds too; a split of which a
\* call fails belongs to a sequence on which the single call fails as well.
C8_SplitsAgreeOnSuccess ==
    Split => (/\ ~hist.failed => (/\ OneCall.st = "ok"
                                  /\ OneCall.val = hist.vals
                                  /\ OneCall.cur = CurOf(view))
              /\ hist.failed => OneCall.st # "ok")

\* Two single-type calls, both successful, the second of which moved the
\* cursor on from where the first left it.
C8_Witness ==
    /\ Split
    /\ ~hist.failed
    /\ WasRead
    /\ Len(last.types) = 1
    /\ Len(hist.types) = 2
    /\ PreCur.begin > hist.start.begin
    /\ view.begin > PreCur.begin

\* An iterable whose element size is fixed and whose declared count needs
\* more element bytes than remain after the count.
DeclaredCountShort(t, cur, data) ==
    /\ t.k \in {"iterable", "view"}
    /\ FunctionSize(t.sub[1]) = "compileTime"
    /\ cur.len >= U32.n
    /\ FromLE(Peek(cur, data, U32.n)) * StaticSize(t.sub[1]) > cur.len - U32.n

\* C9: a decode of an iterable whose declared count needs more bytes than
\* remain throws out_of_range and leaves the cursor inside its data, with
\* the queued and with the direct-memory generator alike.
C9_DeclaredCountChecked ==
    (WasRead /\ Len(last.types) = 1
             /\ DeclaredCountShort(last.types[1], PreCur, bv.bytes))
        => (/\ last.st = "err"
            /\ last.kind = "out_of_range"
            /\ ~aborted
            /\ view.begin + view.len <= view.hi)

\* C10: the range of a live view lies inside the range it was constructed
\* from, and its length is not negative.
C10_RangeInvariant ==
    view.live => (/\ view.lo <= view.begin
                  /\ view.len >= 0
                  /\ view.begin + view.len <= view.hi
                  /\ view.begin <= view.hi)

-----------------------------------------------------------------------------
(* Claims about the single converters.                                     *)

\* The count a cursor with at least four bytes shows first.
CountAt(cur, data) == FromLE(Peek(cur, data, U32.n))

\* C11: decoding std::array<T, N> from bytes whose 4-byte count is not N
\* throws the array-length error (std::runtime_error) whether or not the
\* bytes of the elements are there, returns nothing, and leaves the cursor
\* where it was before the call.
C11_ArrayMismatch ==
    (WasRead /\ last.types[1].k = "array"
             /\ PreCur.len >= U32.n
             /\ CountAt(PreCur, bv.bytes) # last.types[1].n)
        => (/\ last.st = "err"
            /\ last.kind = "runtime_error"
            /\ last.val = <<>>
            /\ CurOf(view) = PreCur)

\* The encoding of a 2-element array was read as a 3-element array.
C11_Witness ==
    /\ WasRead
    /\ made = <<Arg(ArrayT(U16, 2), <<7, 300>>)>>
    /\ last.types = <<ArrayT(U16, 3)>>
    /\ PreCur = Whole
    /\ last.kind = "runtime_error"
    /\ view.len = Len(bv.bytes)

\* The selector a cursor with at least sizeof(size_t) bytes shows first.
SelectorAt(cur, data) == FromLE(Peek(cur, data, SizeT.n))

IsVariantRead ==
    WasRead /\ last.types[1].k = "variant" /\ PreCur.len >= SizeT.n

\* C12: decoding a variant from bytes whose selector is not below the number
\* of alternatives throws the invalid-selector error (std::runtime_error),
\* decodes nothing and leaves the cursor where it was; a selector below the
\* number of alternatives has exactly the alternative of that index decoded,
\* from the bytes after the selector.
C12_InvalidSelector ==
    IsVariantRead =>
        LET t == last.types[1]
            sel == SelectorAt(PreCur, bv.bytes)
            alt == ReadOne(t.sub[sel.lo + 1], RemovePrefix(PreCur, SizeT.n), bv.bytes)
        IN IF sel.hi > 0 \/ sel.lo >= Len(t.sub)
           THEN /\ last.st = "err"
                /\ last.kind = "runtime_error"
                /\ last.val = <<>>
                /\ CurOf(view) = PreCur
           ELSE /\ alt.st = "ok" => /\ last.val # <<>>
                                    /\ last.val[1] = [idx |-> sel.lo, val |-> alt.val]
                /\ alt.st = "err" => last.st = "err" /\ last.kind = alt.kind

\* A variant holding its third alternative was read as a variant with two
\* alternatives.
C12_Witness ==
    /\ IsVariantRead
    /\ made = <<Arg(Variant3, [idx |-> 2, val |-> <<1>>])>>
    /\ last.types = <<VariantB>>
    /\ PreCur = Whole
    /\ last.kind = "runtime_error"
    /\ view.len = Len(bv.bytes)

\* C14: Read(n) with n bytes left (or more) returns exactly the next n bytes
\* and moves the cursor n forward; with fewer than n bytes left it raises
\* out_of_range and leaves the cursor's position and length as they were.
C14_ReadBytes ==
    last.op = "ReadBytes" =>
        LET pre == CurOf(last.preView) IN
        IF last.n <= pre.len
        THEN /\ last.st = "ok"
             /\ Len(last.val) = last.n
             /\ \A i \in 1..last.n : last.val[i] = bv.bytes[pre.begin + i]
             /\ CurOf(view) = Cursor(pre.begin + last.n, pre.len - last.n)
        ELSE /\ last.st = "err"
             /\ last.kind = "out_of_range"
             /\ last.val = <<>>
             /\ CurOf(view) = pre

\* One byte was asked of a view that, after a typed read, has none left.
C14_Witness ==
    /\ last.op = "ReadBytes"
    /\ last.n = 1
    /\ last.st = "err"
    /\ last.preView.len = 0
    /\ last.preView.begin = Len(bv.bytes)
    /\ Len(bv.bytes) > 0

\* One byte was asked of a view that had it.
C14_WitnessRead ==
    /\ last.op = "ReadBytes"
    /\ last.n = 1
    /\ last.st = "ok"
    /\ view.begin = last.preView.begin + 1

\* C15: for a type whose converter is a PointerTupleConverter naming some of
\* its members, Read<T>(Create(v)) has the named members equal to v's and
\* every other member as T{} has it, whatever v held there; the encoding is
\* that of the named members alone.
C15_MemberSubset ==
    (WasRead /\ Len(made) = 1 /\ made[1].t.k = "ptrtuple"
             /\ last.types = TypesOf(made) /\ PreCur = Whole)
        => LET t == made[1].t
               v == made[1].v
               listed == { t.ptrs[i] : i \in 1..Len(t.ptrs) }
           IN /\ last.st = "ok"
              /\ Len(last.val) = 1
              /\ \A m \in 1..Len(t.sub) :
                    last.val[1][m] = IF m \in listed THEN v[m] ELSE t.dflt[m]
              /\ bv.bytes = Create([i \in 1..Len(t.ptrs) |->
                                        Arg(t.sub[t.ptrs[i]], v[t.ptrs[i]])]).bytes

\* A D whose m_b was not the default was created and read back.
C15_Witness ==
    /\ WasRead
    /\ made = <<Arg(TypeD, <<7, <<1>>, 13>>)>>
    /\ last.types = <<TypeD>>
    /\ PreCur = Whole
    /\ last.val = << <<7, DefaultB, 13>> >>
    /\ bv.bytes = <<7, 0, 13, 0, 0, 0>>

-----------------------------------------------------------------------------
(* Claims about the wire format.                                           *)

\* The bytes of Create(a1), ..., Create(an), one after the other.
RECURSIVE CreateEach(_)
CreateEach(args) ==
    IF args = <<>> THEN <<>>
    ELSE Create(<<Head(args)>>).bytes \o CreateEach(Tail(args))

IsTupleLike(t) == t.k \in {"tuple", "tupleconv"}

\* The members of a tuple-like argument, as arguments of their own.
MembersOf(a) == [i \in 1..Len(a.t.sub) |-> Arg(a.t.sub[i], a.v[i])]

\* C16: the bytes of Create(a1, ..., an) are those of Create(a1), ...,
\* Create(an) in argument order; a tuple, pair or TupleConverter type is
\* encoded as its members in declared order, with no prefix and no padding,
\* so that Create(obj) = Create(member1, ..., memberk); the pair
\* (uint16 7, uint32 13) takes the 6 bytes 7 0 13 0 0 0 and decodes to (7, 13).
C16_OrderedConcatenation ==
    (last.op = "Create" /\ last.st = "ok") =>
        /\ bv.bytes = CreateEach(last.args)
        /\ \A i \in 1..Len(last.args) :
              LET a == last.args[i]
                  bytes == Create(<<a>>).bytes
              IN /\ IsTupleLike(a.t) => bytes = Create(MembersOf(a)).bytes
                 /\ a = Arg(PairT, <<7, 13>>) =>
                        /\ bytes = <<7, 0, 13, 0, 0, 0>>
                        /\ Read(<<PairT>>, Cursor(0, 6), bytes).val = << <<7, 13>> >>

\* The pair (7, 13) and a TupleConverter type were created together.
C16_Witness ==
    /\ last.op = "Create"
    /\ last.st = "ok"
    /\ last.args = <<Arg(PairT, <<7, 13>>), Arg(TypeC, <<7, <<1>>>>)>>
    /\ bv.bytes = <<7, 0, 13, 0, 0, 0, 7, 0, 1, 0, 0, 0, 1>>

\* The sum of the sizes the converter of each argument reports for it.
RECURSIVE SizeOfEach(_)
SizeOfEach(args) ==
    IF args = <<>> THEN 0
    ELSE ConverterSize(Head(args).t, Head(args).v).n + SizeOfEach(Tail(args))

\* The elements of an iterable argument, as arguments of their own.
ElementsOf(a) ==
    LET vs == Elements(a.t, a.v) IN [j \in 1..Len(vs) |-> Arg(a.t.sub[1], vs[j])]

\* C17: an iterable of n elements is encoded as a 4-byte count equal to n,
\* then the n element encodings in iteration order, each by its own
\* converter; its Size is 4 plus the sum of the element sizes, and
\* 4 + n * (static element size) is that same number when the element size
\* is static; the vector {2, 3, 5} of 32-bit integers takes 16 bytes.
C17_IterableFormat ==
    (last.op = "Create" /\ last.st = "ok") =>
        \A i \in 1..Len(last.args) :
            LET a == last.args[i]
                n == ContainerSize(a.t, a.v).lo
                bytes == Create(<<a>>).bytes
                size == ConverterSize(a.t, a.v)
            IN IsIterableKind(a.t) =>
                /\ bytes = ToLE(n, 4) \o CreateEach(ElementsOf(a))
                /\ FromLE(SubSeq(bytes, 1, 4)) = n
                /\ size.ok
                /\ size.n = 4 + SizeOfEach(ElementsOf(a))
                /\ FunctionSize(a.t.sub[1]) = "compileTime"
                        => size.n = 4 + n * StaticSize(a.t.sub[1])
                /\ a = Arg(Iter(U32), <<2, 3, 5>>) =>
                        /\ Len(bytes) = 16
                        /\ bytes = <<3, 0, 0, 0, 2, 0, 0, 0, 3, 0, 0, 0, 5, 0, 0, 0>>

\* The vector {2, 3, 5} and a vector of strings were created together.
C17_Witness ==
    /\ last.op = "Create"
    /\ last.st = "ok"
    /\ last.args = <<Arg(Iter(U32), <<2, 3, 5>>), Arg(Iter(StringT), << <<1>>, <<>> >>)>>
    /\ Len(bv.bytes) = 16 + 13

\* C18: a variant is encoded as the index of its active alternative, as wide
\* as a size_t, followed by the encoding of that alternative alone; its Size
\* is the selector width plus the size of the active alternative; decoding
\* the bytes gives a variant with the same active index, also when two
\* alternatives have the same type.
C18_VariantSelector ==
    (Len(made) = 1 /\ made[1].t.k = "variant") =>
        LET t == made[1].t
            v == made[1].v
            alt == Arg(t.sub[v.idx + 1], v.val)
        IN /\ bv.bytes = ToLE(Wide(v.idx), SizeT.n) \o Create(<<alt>>).bytes
           /\ SubSeq(bv.bytes, 1, SizeT.n) = <<v.idx>> \o Zeros(SizeT.n - 1)
           /\ ConverterSize(t, v) = SizeOk(SizeT.n + ByteVectorSizeOne(alt.t, alt.v).n)
           /\ (WasRead /\ last.types = <<t>> /\ PreCur = Whole)
                 => (/\ last.st = "ok"
                     /\ last.val[1].idx = v.idx
                     /\ last.val[1].val = v.val)

\* A variant<size_t, string, string> holding its third alternative was
\* created and read back.
C18_Witness ==
    /\ WasRead
    /\ made = <<Arg(Variant3, [idx |-> 2, val |-> <<1>>])>>
    /\ last.types = <<Variant3>>
    /\ PreCur = Whole
    /\ last.val[1].idx = 2
    /\ bv.bytes = <<2, 0, 0, 0, 0, 0, 0, 0, 1, 0, 0, 0, 1>>

\* C20: when every field decodes, ByteReader{cursor}.Read(v1, ..., vn) has
\* assigned v1..vn, from left to right, the values that
\* cursor.Read<type of v1, ..., type of vn>() returns, and has moved the
\* cursor it shares by the same number of bytes.
C20_ReaderEquivalence ==
    (last.op = "ReaderRead" /\ last.st = "ok") =>
        LET pre == CurOf(last.preView)
            one == Read(last.types, pre, bv.bytes)
        IN /\ one.st = "ok"
           /\ last.val = one.val
           /\ CurOf(view) = one.cur
           /\ pre.len - view.len = pre.len - one.cur.len

\* A byte and a string were created together and read into two variables.
C20_Witness ==
    /\ last.op = "ReaderRead"
    /\ last.st = "ok"
    /\ made = <<Arg(U8, 2), Arg(StringT, <<1, 2>>)>>
    /\ last.types = TypesOf(made)
    /\ last.preView.begin = 0
    /\ last.val = <<2, <<1, 2>>>>
    /\ view.len = 0

\* Argument i of the last call is an iterable of more than 2^32 - 1
\* elements, and nothing before it in the call throws.
Overflows(i) ==
    /\ i \in 1..Len(last.args)
    /\ IsIterableKind(last.args[i].t)
    /\ ContainerSize(last.args[i].t, last.args[i].v).hi > 0
    /\ ByteVectorSize(last.args).ok
    /\ \A j \in 1..(i - 1) : Create(<<last.args[j]>>).st = "ok"

-----------------------------------------------------------------------------
(* Claims about a build without exceptions.                                *)

WasDecode == last.op \in {"Read", "ReaderRead"}

\* The failures the library raises, as the arguments of the last call show
\* them: a read or a view out of range, a count that is not the array's, a
\* selector that names no alternative, a count too large to be written.
OutOfRangeRead ==
    \/ last.op = "ReadBytes" /\ last.n > PreCur.len
    \/ last.op = "ByteView" /\ last.n > Len(last.pre.bytes)
    \/ last.op = "ByteViewIter" /\ last.n > last.m
    \/ WasDecode /\ last.types[1].k = "scalar" /\ last.types[1].n > PreCur.len

ArrayLengthMismatch ==
    /\ WasDecode
    /\ last.types[1].k = "array"
    /\ PreCur.len >= U32.n
    /\ CountAt(PreCur, bv.bytes) # last.types[1].n

InvalidSelector ==
    /\ WasDecode
    /\ last.types[1].k = "variant"
    /\ PreCur.len >= SizeT.n
    /\ LET sel == SelectorAt(PreCur, bv.bytes)
       IN sel.hi > 0 \/ sel.lo >= Len(last.types[1].sub)

OutOfRangeWrite == WasEncode /\ \E i \in 1..Len(last.args) : Overflows(i)

C19_Terminates ==
    /\ ~exceptions
    /\ (OutOfRangeRead \/ ArrayLengthMismatch \/ InvalidSelector \/ OutOfRangeWrite)
          => (last.st = "abort" /\ last.val = <<>>)
    /\ last.st = "abort" => aborted
    /\ last.st = "err" => last.op = "SubString"
    /\ (WasDecode /\ last.st = "abort" /\ Len(last.types) = 2)
          => LET first == ReadOne(last.types[1], PreCur, bv.bytes)
             IN first.st = "ok" => view.begin >= first.cur.begin
    /\ (WasWrite /\ last.st = "abort")
          => \A i \in 1..Len(last.args) :
                Overflows(i) =>
                    bv.bytes = last.pre.bytes \o CreateEach(SubSeq(last.args, 1, i - 1))

\* C19: in a build without exceptions every failure the library raises
\* (out-of-range read, count too large to write, invalid selector, array
\* count mismatch) ends the process where it is found: the call reports
\* nothing, no step follows it, the cursor of a Read and the buffer of a
\* Write stay as the failing step found them, not as a catch block would
\* restore them; and the build's mode is the same in every state.
C19_TerminateOnFailure ==
    []C19_Terminates /\ [][exceptions' = exceptions /\ ~aborted]_vars

\* Read<uint8_t, uint8_t>() of a one-byte view ended the process with the
\* first byte consumed.
C19_Witness ==
    /\ ~exceptions
    /\ WasRead
    /\ last.types = <<U8, U8>>
    /\ PreCur = Cursor(0, 1)
    /\ last.st = "abort"
    /\ last.kind = "out_of_range"
    /\ aborted
    /\ view.begin = 1

\* Write(uint8_t, container of 2^32 elements) ended the process with the
\* byte of the first argument stored.
C19_WitnessWrite ==
    /\ ~exceptions
    /\ WasWrite
    /\ last.args = <<Arg(U8, 2), Huge>>
    /\ last.st = "abort"
    /\ aborted
    /\ bv.bytes = <<1, 2, 2>>

-----------------------------------------------------------------------------
(* Claims about Concat.                                                    *)

WasConcat == last.op = "Concat"

\* The bytes of the arguments, one behind the other.
RECURSIVE Joined(_)
Joined(args) == IF args = <<>> THEN <<>> ELSE Head(args).bytes \o Joined(Tail(args))

\* No argument of the last call is the buffer it was called on.
OthersOnly == \A i \in 1..Len(last.args) : ~last.args[i].self

\* C21: Concat(b1, ..., bk), the arguments being objects other than the
\* buffer, appends exactly the bytes of b1, ..., bk in argument order and no
\* header: the size grows by the sum of the arguments' sizes, the bytes held
\* before stay as they were, and every argument is after the call what it
\* was before.
C21_ConcatAppends ==
    (WasConcat /\ OthersOnly)
        => (/\ last.st = "ok"
            /\ ~aborted
            /\ bv.bytes = last.pre.bytes \o Joined(last.args)
            /\ Len(bv.bytes) = PreSize + last.n
            /\ SubSeq(bv.bytes, 1, PreSize) = last.pre.bytes
            /\ last.val = [i \in 1..Len(last.args) |-> last.args[i].bytes])

\* bv.Concat(bv2, bv3) on a buffer that held 1, 2.
C21_Witness ==
    /\ WasConcat
    /\ last.pre.bytes = <<1, 2>>
    /\ last.args = <<ConcatArg(FALSE, <<3, 5>>), ConcatArg(FALSE, <<8, 13>>)>>
    /\ bv.bytes = <<1, 2, 3, 5, 8, 13>>

\* C30: Concat writes only the bytes from the old size to the old size plus
\* the sizes the arguments had before the call, also when an argument is
\* the buffer itself: bv.Concat(bv) appends one copy of the bytes bv held
\* and doubles its size.
C30_ConcatAliasSafe ==
    WasConcat
        => (/\ last.st = "ok"
            /\ ~aborted
            /\ last.m <= PreSize + last.n
            /\ last.args = <<ConcatArg(TRUE, <<>>)>>
                  => bv.bytes = last.pre.bytes \o last.pre.bytes)

-----------------------------------------------------------------------------
(* Claims about copies of a ByteView.                                      *)

\* A step that reads from view: Read<Ts...>, ByteReader::Read or Read(n).
IsReadStep ==
    /\ last'.op \in {"Read", "ReaderRead", "ReadBytes"}
    /\ hist'.used > hist.used

\* A view made of the whole buffer shows all of it from its first byte.
NewViewAtStart ==
    (last.op = "ByteView" /\ last.st = "ok" /\ last.n = 0)
        => (view.begin = 0 /\ view.len = Len(bv.bytes) /\ bv = last.pre)

C22_WitnessAgain ==
    /\ last.op = "ByteView"
    /\ saved.live
    /\ saved.begin > 0
    /\ view.begin = 0
    /\ view.len = Len(bv.bytes)
    /\ Len(bv.bytes) > 0

-----------------------------------------------------------------------------
(* Claims about the choice of a converter.                                 *)

WasResolve == last.op = "Resolve"

\* The built-in categories a type falls in.
Applies(x) == Constrained(x) \cup (IF x.variant THEN {"variant"} ELSE {})

Strategies == {"explicit", "scalar", "enum", "iterable", "tuple", "variant"}

C23_WitnessPath ==
    /\ WasResolve
    /\ last.args[1].explicit
    /\ last.args[1].iterable
    /\ last.val = <<"explicit">>

\* An enum for which begin and end are declared.
C23_WitnessAmbiguous ==
    /\ WasResolve
    /\ last.args[1].enum
    /\ last.args[1].iterable
    /\ last.val = <<"ambiguous">>

-----------------------------------------------------------------------------
(* Claims about the functions of a converter that get called.              *)

\* How many entries of the log name the function f for the argument a.
CountOf(log, f, a) ==
    Cardinality({ i \in DOMAIN log : log[i].f = f /\ log[i].arg = a })

\* How many times a is among the arguments.
TimesIn(args, a) == Cardinality({ i \in DOMAIN args : args[i] = a })

\* The calls the write phase made: those after the calls of the size phase.
StoredCalls == SubSeq(last.calls, Len(last.sized) + 1, Len(last.calls))

UserArgs == { a \in SignatureValues : a.t.k = "user" }

SizeNames == {"Size()", "Size(obj)", "To(obj)"}
ToNames == {"To(obj, bv)", "To(obj)"}

\* The Size function the claim says is used: the static one when there is
\* one, else the instance-taking one, else the encoding into a scratch buffer.
SizeChoice(t) ==
    IF "Size()" \in t.sizes THEN "Size()"
    ELSE IF "Size(obj)" \in t.sizes THEN "Size(obj)"
    ELSE "To(obj)"

\* The To function the claim says is used: the buffer-expanding one when
\* there is one.
ToChoice(t) == IF "To(obj, bv)" \in t.tos THEN "To(obj, bv)" ELSE "To(obj)"

\* C24: in a Write or Create whose size phase ran through, the size of each
\* argument came from the static Size() when its converter defines one (also
\* next to an instance-taking one), else from Size(obj), and from encoding by
\* To(obj) only when the converter defines no Size; and in one that
\* succeeded each argument was stored by To(obj, bv) when its converter
\* defines it (also next to To(obj)), else by To(obj).
C24_SignaturePriority ==
    WasEncode =>
        \A a \in UserArgs :
            /\ last.phase # "size" =>
                    \A f \in SizeNames :
                        CountOf(last.sized, f, a) =
                            IF f = SizeChoice(a.t) THEN TimesIn(last.args, a) ELSE 0
            /\ last.st = "ok" =>
                    \A f \in ToNames :
                        CountOf(StoredCalls, f, a) =
                            IF f = ToChoice(a.t) THEN TimesIn(last.args, a) ELSE 0

\* A Write of a value whose converter defines both Size functions and both
\* To functions succeeded.
C24_Witness ==
    /\ WasWrite
    /\ last.st = "ok"
    /\ \E i \in DOMAIN last.args :
        /\ last.args[i].t.k = "user"
        /\ last.args[i].t.sizes = {"Size()", "Size(obj)"}
        /\ last.args[i].t.tos = ToNames
        /\ CountOf(last.sized, "Size()", last.args[i]) > 0
        /\ CountOf(StoredCalls, "To(obj, bv)", last.args[i]) > 0

\* A Write of a value whose converter defines no Size succeeded.
C24_WitnessAbsent ==
    /\ WasWrite
    /\ last.st = "ok"
    /\ \E i \in DOMAIN last.args :
        /\ last.args[i].t.k = "user"
        /\ last.args[i].t.sizes = {}
        /\ CountOf(last.sized, "To(obj)", last.args[i]) > 0

\* How many times a To function, of either form, was called for a.
ToCalls(log, a) == CountOf(log, "To(obj, bv)", a) + CountOf(log, "To(obj)", a)

\* How many times From was called for the type t.
FromCalls(log, t) == CountOf(log, "From", Arg(t, 0))

\* C25: within one Write or Create the calls of the size phase all come
\* before those of the write phase; the To of an argument whose converter
\* defines a Size function is called in the write phase only, once for each
\* time the argument is passed when the call succeeds and never more; the To
\* of an argument whose converter defines no Size is called once in the size
\* phase and once more in the write phase; and a Read that succeeds calls
\* From once for each time the type is named.
C25_EncodeCallCount ==
    /\ WasEncode =>
        /\ SubSeq(last.calls, 1, Len(last.sized)) = last.sized
        /\ \A a \in UserArgs :
            LET times == TimesIn(last.args, a) IN
            /\ ToCalls(StoredCalls, a) <= times
            /\ last.st = "ok" => ToCalls(StoredCalls, a) = times
            /\ a.t.sizes # {} => ToCalls(last.sized, a) = 0
            /\ a.t.sizes = {} =>
                /\ ToCalls(last.sized, a) <= times
                /\ last.phase # "size" => ToCalls(last.sized, a) = times
                /\ last.st = "ok" => ToCalls(last.calls, a) = 2 * times
    /\ WasRead =>
        \A t \in UserTypes :
            /\ FromCalls(last.calls, t) <= TimesIn(last.types, t)
            /\ last.st = "ok" => FromCalls(last.calls, t) = TimesIn(last.types, t)

\* A Create of one value whose converter defines no Size succeeded: its To
\* was called twice.
C25_Witness ==
    /\ last.op = "Create"
    /\ last.st = "ok"
    /\ \E a \in UserArgs :
        /\ a.t.sizes = {}
        /\ last.args = <<a>>
        /\ ToCalls(last.sized, a) = 1
        /\ ToCalls(last.calls, a) = 2

\* A Create of one value whose converter defines Size(obj) and To(obj, bv),
\* as the converter of the test does, succeeded: its To was called once.
C25_WitnessSized ==
    /\ last.op = "Create"
    /\ last.st = "ok"
    /\ \E a \in UserArgs :
        /\ a.t.sizes = {"Size(obj)"}
        /\ a.t.tos = {"To(obj, bv)"}
        /\ last.args = <<a>>
        /\ ToCalls(last.calls, a) = 1

\* The value created was read back: From was called once.
C25_WitnessRead ==
    /\ WasRead
    /\ last.st = "ok"
    /\ \E a \in UserArgs :
        /\ made = <<a>>
        /\ last.types = <<a.t>>
        /\ last.val = <<a.v>>
        /\ FromCalls(last.calls, a.t) = 1

-----------------------------------------------------------------------------
(* Claims about the size of a type whose converter lists its members.      *)

WasSize == last.op = "Size"

\* The types and the values of the members the converter lists.
ListedTypes(a) == IF a.t.k = "ptrtuple" THEN ConvertType(a.t) ELSE a.t.sub
ListedValues(a) == IF a.t.k = "ptrtuple" THEN PointerTupleConvert(a.t, a.v) ELSE a.v

RECURSIVE SumOfStatic(_)
SumOfStatic(ms) ==
    IF ms = <<>> THEN 0 ELSE StaticSize(Head(ms)) + SumOfStatic(Tail(ms))

RECURSIVE SumOfInstance(_, _)
SumOfInstance(ms, vs) ==
    IF ms = <<>> THEN 0
    ELSE ByteVectorSizeOne(Head(ms), Head(vs)).n + SumOfInstance(Tail(ms), Tail(vs))

\* C26: a converter derived from TupleConverter or PointerTupleConverter has
\* the static Size() exactly when the converter of every listed member has a
\* size known at compile time, and that Size() is the sum of the static
\* sizes of the listed members; otherwise it has the instance-taking Size
\* only, which is the sum of the sizes of the listed members of the value.
C26_MemberStaticSize ==
    WasSize =>
        LET a == last.args[1]
            ms == ListedTypes(a)
        IN /\ (last.phase = "compileTime") <=>
                  (\A i \in DOMAIN ms : FunctionSize(ms[i]) = "compileTime")
           /\ last.phase = "compileTime" =>
                  /\ last.n = SumOfStatic(ms)
                  /\ last.size = last.n
           /\ last.phase # "compileTime" =>
                  /\ last.phase = "runTime"
                  /\ last.size = SumOfInstance(ms, ListedValues(a))

-----------------------------------------------------------------------------
(* Claims about what a Read consumes of what was encoded.                  *)

\* The arguments j+1 .. k of the last Create.
Segment(j, k) == SubSeq(made, j + 1, k)

\* Where the encoding of argument j of the last Create ends in the buffer.
Off(j) == Len(CreateEach(Segment(0, j)))

\* What a Read of the types of as returns: a type whose converter lists a
\* subset of its members returns the listed members.
Returned(as, vals) ==
    /\ Len(vals) = Len(as)
    /\ \A i \in 1..Len(as) :
          IF as[i].t.k = "ptrtuple"
          THEN PointerTupleConvert(as[i].t, vals[i]) = PointerTupleConvert(as[i].t, as[i].v)
          ELSE vals[i] = as[i].v

\* The Read was given the types of the arguments j+1 .. k of the buffer that
\* Create returned, by a cursor standing where the encoding of argument j
\* ends: the bytes of these arguments followed by those of the later ones.
ReadOfSegment(j, k) ==
    /\ WasRead
    /\ j < k
    /\ k <= Len(made)
    /\ PreCur = Cursor(Off(j), Len(bv.bytes) - Off(j))
    /\ last.types = TypesOf(Segment(j, k))

C27_WitnessEmpty ==
    /\ ReadOfSegment(1, 2)
    /\ PreCur.begin > 0
    /\ last.st = "ok"
    /\ view.len = 0

\* A string_view was read back from the buffer made of it.
C27_WitnessView ==
    /\ ReadOfSegment(0, 1)
    /\ made = <<Arg(ViewT(U8), <<2, 1>>)>>
    /\ last.val = << <<2, 1>> >>
    /\ view.begin = 6
    /\ view.len = 0

-----------------------------------------------------------------------------
(* Claims about a sequence of Write calls on one buffer.                   *)

C28_WitnessAfterFailure ==
    /\ WasWrite
    /\ last.st = "ok"
    /\ items = 3
    /\ Len(made) = 2
    /\ Len(last.args) = 1
    /\ made[1] = Arg(U8, 2)
    /\ bv.bytes = base \o <<2>> \o Create(last.args).bytes

-----------------------------------------------------------------------------
(* Claims about a ByteReader::Read that fails.                             *)

WasReaderRead == last.op = "ReaderRead"

\* The variables of the last ByteReader::Read that were assigned: the first
\* Assigned of them, each from a Read of its own.
Assigned == Len(last.val)

\* The types of the variables before the one that failed.
Before == SubSeq(last.types, 1, Assigned)

\* C29: when ByteReader::Read(v1, ..., vn) fails while decoding vk, v1 ..
\* v(k-1) hold the values just decoded, vk .. vn were not assigned, and the
\* shared cursor stays past the bytes of v1 .. v(k-1): only what the failing
\* field consumed is undone, whereas ByteView::Read<T1, ..., Tn>() from the
\* same place puts the cursor back where the whole call began.
C29_ReaderNoRollback ==
    (WasReaderRead /\ last.st = "err") =>
        LET done == IF Assigned = 0 THEN DecOk(PreCur, <<>>)
                    ELSE Read(Before, PreCur, bv.bytes)
            one == Read(last.types, PreCur, bv.bytes)
        IN /\ Assigned < Len(last.types)
           /\ done.st = "ok"
           /\ last.val = done.val
           /\ CurOf(view) = done.cur
           /\ From(last.types[Assigned + 1], done.cur, bv.bytes).st = "err"
           /\ one.st = "err"
           /\ one.cur = PreCur

\* A byte and a string were asked of the two bytes 1 2: the byte was
\* assigned and the cursor stays behind it, a Read<uint8_t, string>() would
\* have left the cursor at the start.
C29_Witness ==
    /\ WasReaderRead
    /\ last.st = "err"
    /\ last.types = <<U8, StringT>>
    /\ bv.bytes = <<1, 2>>
    /\ PreCur = Cursor(0, 2)
    /\ last.val = <<1>>
    /\ CurOf(view) = Cursor(1, 1)
    /\ Read(last.types, PreCur, bv.bytes).cur = PreCur

====
